---- MODULE Spec2Model ----
(***************************************************************************)
(* Model of nu-mcp's process execution and job supervision:                *)
(*   src/src/state.rs  AppState (session cwd, job registry), ProcessInfo,  *)
(*                     push_truncated                                      *)
(*   src/src/exec.rs   NuExecutor::exec_blocking / exec_background /       *)
(*                     read_output / kill_process, monitor_and_drain_pipes *)
(*   src/src/main.rs   NuServer::nu_exec / nu_output / nu_kill             *)
(* Text is a sequence of one-character strings; Option<T> is a sequence of *)
(* length at most one (<<>> is None, <<v>> is Some(v)).                    *)
(***************************************************************************)
EXTENDS Integers, Sequences, FiniteSets

\* ------------------------------------------------------------------ bounds
MaxCalls == 2      \* blocking nu.exec calls
MaxJobs == 2       \* background nu.exec calls
MaxKills == 2      \* nu.kill calls
MaxReaders == 1    \* nu.output calls

Calls == 1..MaxCalls
Jobs == 1..MaxJobs
Killers == 1..MaxKills
Readers == 1..MaxReaders
\* Operating-system processes: call c runs process c, job j runs process MaxCalls + j.
Procs == 1..(MaxCalls + MaxJobs)
CallProc(c) == c
JobProc(j) == MaxCalls + j
IsBlockingProc(p) == p <= MaxCalls
\* Identifiers a caller may name: the generated ones and one never generated.
\* 0 stands for no identifier, no record, no command and no call.
JobIds == 1..(MaxJobs + 1)

Streams == {"stdout", "stderr"}

\* ------------------------------------------------------------------ text
Min(S) == CHOOSE x \in S : \A y \in S : x <= y
Max(S) == CHOOSE x \in S : \A y \in S : x >= y

\* char::is_whitespace, on the characters the model uses
IsWhite(ch) == ch \in {" ", "\n", "\t", "\r"}

\* str::find: 0-based byte index of the first match, as Option
Find(s, pat) ==
  LET hits == {i \in 0..(Len(s) - Len(pat)) : SubSeq(s, i + 1, i + Len(pat)) = pat}
  IN IF hits = {} THEN <<>> ELSE <<Min(hits)>>

\* str::trim_end
TrimEnd(s) ==
  LET keep == {i \in 1..Len(s) : ~IsWhite(s[i])}
  IN IF keep = {} THEN <<>> ELSE SubSeq(s, 1, Max(keep))

\* str::trim
Trim(s) ==
  LET keep == {i \in 1..Len(s) : ~IsWhite(s[i])}
  IN IF keep = {} THEN <<>> ELSE SubSeq(s, Min(keep), Max(keep))

\* str::lines().next(): None on the empty text, else the text up to the first
\* "\n", without that "\n" and without a "\r" right before it
LinesNext(s) ==
  IF s = <<>> THEN <<>>
  ELSE LET nls == {i \in 1..Len(s) : s[i] = "\n"}
       IN IF nls = {} THEN <<s>>
          ELSE LET n == Min(nls)
                   cut == IF n > 1 /\ s[n - 1] = "\r" THEN n - 2 ELSE n - 1
               IN <<SubSeq(s, 1, cut)>>

Sentinel == <<":", ":", ":", "C", "W", "D", ":", ":", ":">>
TruncationMarker ==
  <<"\n", ".", ".", ".", " ", "<", "t", "r", "u", "n", "c", "a", "t", "e", "d", ">",
    " ", ".", ".", ".">>
StderrLabel == <<"\n", "[", "s", "t", "d", "e", "r", "r", "]", "\n">>

TruncateReserve == 100
BlockingStdoutCap == 200000
BlockingStderrCap == 50000
BackgroundCap == 100000

\* usize::saturating_sub
SaturatingSub(a, b) == IF a >= b THEN a - b ELSE 0

\* push_truncated whose branch that truncates the buffer appends no marker
PushTruncatedNoMarker(buffer, data, max_size) ==
  IF Len(buffer) + Len(data) > max_size
  THEN LET remaining == SaturatingSub(max_size, TruncateReserve)
       IN IF Len(data) > remaining
          THEN buffer \o SubSeq(data, 1, remaining) \o TruncationMarker
          ELSE SubSeq(buffer, 1, Min({remaining, Len(buffer)})) \o data
  ELSE buffer \o data

\* push_truncated that keeps the end of the buffer, not its start
PushTruncatedSliding(buffer, data, max_size) ==
  IF Len(buffer) + Len(data) > max_size
  THEN LET remaining == SaturatingSub(max_size, TruncateReserve)
       IN IF Len(data) > remaining
          THEN buffer \o SubSeq(data, 1, remaining) \o TruncationMarker
          ELSE SubSeq(buffer, Len(buffer) - Min({remaining, Len(buffer)}) + 1, Len(buffer))
               \o data \o TruncationMarker
  ELSE buffer \o data

\* push_truncated that, when the data is longer than `remaining`, replaces the
\* buffer by the cut data and the marker
PushTruncatedReplaces(buffer, data, max_size) ==
  IF Len(buffer) + Len(data) > max_size
  THEN LET remaining == SaturatingSub(max_size, TruncateReserve)
       IN IF Len(data) > remaining
          THEN SubSeq(data, 1, remaining) \o TruncationMarker
          ELSE SubSeq(buffer, 1, Min({remaining, Len(buffer)})) \o data \o TruncationMarker
  ELSE buffer \o data

\* push_truncated(buffer, data, max_size): the new buffer
PushTruncated(buffer, data, max_size) ==
  IF Len(buffer) + Len(data) > max_size
  THEN LET remaining == SaturatingSub(max_size, TruncateReserve)
       IN IF Len(data) > remaining
          THEN buffer \o SubSeq(data, 1, remaining) \o TruncationMarker
          ELSE SubSeq(buffer, 1, Min({remaining, Len(buffer)})) \o data \o TruncationMarker
  ELSE buffer \o data

\* The two bytes of one two-byte character (U+00E9 in UTF-8); every other
\* byte of the model is a one-byte character.
LeadByte == "C3"
ContinuationByte == "A9"

\* str::is_char_boundary: the start, the end, or a byte that is not a
\* continuation byte
IsCharBoundary(s, index) ==
  \/ index = 0
  \/ index = Len(s)
  \/ index < Len(s) /\ s[index + 1] # ContinuationByte

\* push_truncated panics: &data[..remaining] and buffer.truncate(remaining)
\* (when remaining <= buffer.len()) require a character boundary at
\* `remaining`.
PushPanics(buffer, data, max_size) ==
  /\ Len(buffer) + Len(data) > max_size
  /\ LET remaining == SaturatingSub(max_size, TruncateReserve)
     IN IF Len(data) > remaining
        THEN ~IsCharBoundary(data, remaining)
        ELSE remaining <= Len(buffer) /\ ~IsCharBoundary(buffer, remaining)

\* The cap a drain task passes to push_truncated
DrainCap(p, s) ==
  IF IsBlockingProc(p)
  THEN (IF s = "stdout" THEN BlockingStdoutCap ELSE BlockingStderrCap)
  ELSE BackgroundCap

\* ------------------------------------------------------------ directories
InitialCwd == <<"/", "0">>
DirT == <<"/", "t">>
DirU == <<"/", "u", " ">>     \* a directory whose name ends in a space
Dirs == {DirT, DirU}
\* The directories `cd` can enter; any other text makes `try { cd .. }` a no-op.
ExistingDirs == Dirs \cup {InitialCwd}

\* ------------------------------------------------- the interpreter's input
\* A command is what the interpreter does with the user's pipeline: the lines
\* it prints (each to a stream), the directory it changes to (or None), how it
\* ends, and whether it leaves a descendant holding the pipes open afterwards.
EchoLine(s, text) == [stream |-> s, text |-> text]
Commands == <<
  \* cd "/u "; print "a "
  [out |-> <<EchoLine("stdout", <<"a", " ">>)>>, cd |-> <<DirU>>,
   end |-> "ok", holds |-> FALSE],
  \* print ":::CWD:::/t"; sleep forever
  [out |-> <<EchoLine("stdout", Sentinel \o DirT)>>, cd |-> <<>>,
   end |-> "hang", holds |-> FALSE],
  \* print -e "e"; error   (a descendant keeps the pipes open)
  [out |-> <<EchoLine("stderr", <<"e">>)>>, cd |-> <<>>,
   end |-> "fail", holds |-> TRUE],
  \* print "b"; killed by a signal from outside
  [out |-> <<EchoLine("stdout", <<"b">>)>>, cd |-> <<>>,
   end |-> "signal", holds |-> FALSE],
  \* print "c"; print -e "e"; print "d"; sleep forever
  [out |-> <<EchoLine("stdout", <<"c">>), EchoLine("stderr", <<"e">>),
             EchoLine("stdout", <<"d">>)>>, cd |-> <<>>,
   end |-> "hang", holds |-> FALSE]
>>
\* The commands given to blocking calls and to supervised jobs
CommandIds == 1..4
\* The commands that show the order of lines: one line, and three lines on
\* two streams from a process that stays alive
LineCommandIds == {1, 5}

\* ------------------------------------------------------------------ state
VARIABLES
  cwd,        \* AppState.cwd: the session working directory
  cwd_writer, \* history: the blocking call whose set_cwd wrote cwd last (0: none)
  processes,  \* AppState.processes: job id -> the job whose record it holds (0: absent)
  info,       \* the ProcessInfo records, by job: child slot, status, exit_code, id
  procs,      \* operating-system processes: state, command, position, directory
  pipes,      \* lines written by a process and not yet read, per stream
  bufs,       \* the drain tasks' buffers (stdout_buf / stderr_buf, or the record's)
  drains,     \* the drain tasks: none, reading, done, error, aborted
  calls,      \* exec_blocking calls: position and locals
  bg,         \* exec_background calls: position and locals
  sup,        \* monitor_and_drain_pipes tasks: position and locals
  kills,      \* kill_process calls: position and locals
  reads,      \* read_output / get_process calls: position and locals
  push,       \* one buffer under a sequence of push_truncated appends
  locks       \* one job's registry and field mutexes and the tasks that lock them

vars ==
  <<cwd, cwd_writer, processes, info, procs, pipes, bufs, drains, calls, bg, sup, kills,
    reads, push, locks>>

NoProc == [state |-> "none", cmd |-> 0, pos |-> 0, dir |-> <<>>, exit |-> <<>>]

\* nu_exec's `args.cwd` and exec_blocking's locals, and three history fields:
\* `cwd_from` is cwd_writer when get_cwd ran, `alive_at_timeout` whether the
\* child was running when the timer branch was taken, `set` the argument of its
\* set_cwd call (None if none).
IdleCall ==
  [pc |-> "idle", arg |-> <<>>, command |-> 0, cwd |-> <<>>, cwd_from |-> 0,
   exit_code |-> 0,
   timed_out |-> FALSE, alive_at_timeout |-> FALSE, kill_ok |-> TRUE,
   stdout_final |-> <<>>, stderr_final |-> <<>>, output |-> <<>>, success |-> FALSE,
   set |-> <<>>]

\* ProcessInfo::new. History fields: `taken` counts the takers that got the
\* process handle, `writes` the assignments to status and to exit_code.
NewProcessInfo(id) ==
  [child |-> TRUE, status |-> "Running", exit_code |-> <<>>, id |-> id,
   taken |-> 0, writes |-> 0]
NoInfo ==
  [child |-> FALSE, status |-> "Running", exit_code |-> <<>>, id |-> 0,
   taken |-> 0, writes |-> 0]

IdleBg == [pc |-> "idle", command |-> 0, cwd |-> <<>>, cwd_from |-> 0, id |-> 0]
\* monitor_and_drain_pipes's locals, and two history fields: `wait` is how its
\* wait for the child ended (exit, error, ceiling), `flushed` whether the stdout
\* drain task had finished when the supervisor stopped waiting for it.
IdleSup ==
  [pc |-> "none", buffers |-> 0, child |-> 0, exit_code |-> 0, status |-> "Running",
   wait |-> "none", flushed |-> FALSE]
\* kill_process's locals, and two history fields: whether the job's process was
\* running, and whether every job had been registered, when the call was made
IdleKill ==
  [pc |-> "idle", id |-> 0, info |-> 0, result |-> "none",
   was_running |-> FALSE, all_registered |-> FALSE]
\* get_process's locals, and three history fields: whether the request carried
\* `block: true`, whether a kill had found the record of this id before the
\* lookup, and whether the job's process was running when the status was read
IdleRead ==
  [pc |-> "idle", id |-> 0, info |-> 0, result |-> "none", block |-> FALSE,
   after_kill |-> FALSE, proc_running |-> FALSE,
   status |-> "Running", exit_code |-> <<>>, stdout |-> <<>>, stderr |-> <<>>]

\* A String buffer and the max_size its appends are made with, whether the
\* task making the appends has panicked, and six history fields: the number of
\* appends made, whether the last append discarded a byte of the data or of
\* the buffer, whether any append did, the buffer and the data the last append
\* was called with, and the buffers all the appends were called with, in order.
NewBuffer(max_size) ==
  [max_size |-> max_size, buffer |-> <<>>, panicked |-> FALSE, appends |-> 0,
   lost |-> FALSE, ever_lost |-> FALSE, before |-> <<>>, data |-> <<>>,
   past |-> <<>>]

\* AppState::new and a server with no call in progress
InitServer ==
  /\ cwd = InitialCwd
  /\ cwd_writer = 0
  /\ processes = [i \in JobIds |-> 0]
  /\ info = [j \in Jobs |-> NoInfo]
  /\ procs = [p \in Procs |-> NoProc]
  /\ pipes = [p \in Procs |-> [s \in Streams |-> <<>>]]
  /\ bufs = [p \in Procs |-> [s \in Streams |-> <<>>]]
  /\ drains = [p \in Procs |-> [s \in Streams |-> "none"]]
  /\ calls = [c \in Calls |-> IdleCall]
  /\ bg = [j \in Jobs |-> IdleBg]
  /\ sup = [j \in Jobs |-> IdleSup]
  /\ kills = [k \in Killers |-> IdleKill]
  /\ reads = [q \in Readers |-> IdleRead]

\* The mutexes one job's tasks lock: AppState.processes and the fields of the
\* job's ProcessInfo
Locks == {"registry", "child", "status", "exit_code", "stdout", "stderr"}
\* The tasks: exec_background, monitor_and_drain_pipes and its two drain
\* tasks, kill_process, get_process; and the timeout branch of exec_blocking
\* with the final reads, whose two drain tasks lock stdout_buf and stderr_buf
Tasks ==
  {"register", "monitor", "drain_stdout", "drain_stderr", "kill", "read", "timeout"}

\* No mutex is held; exec_background, a kill and a get_process are under way
\* (pc 1), the monitor and the drain tasks are not spawned yet (pc 0); the
\* registry holds no record. `got` is what a task's Option::take returned,
\* `aborted` whether JoinHandle::abort was called on the drain tasks, and
\* `cut` (history) whether a drain task was cancelled with a guard in hand.
NoLocks ==
  [owner |-> [l \in Locks |-> "none"],
   pc |-> [t \in Tasks |-> IF t \in {"register", "kill", "read"} THEN 1 ELSE 0],
   got |-> [t \in Tasks |-> FALSE],
   present |-> FALSE, child |-> FALSE, aborted |-> FALSE, cut |-> FALSE]

Init == InitServer /\ push = NewBuffer(BackgroundCap) /\ locks = NoLocks

\* ------------------------------------------------- processes and drain tasks
\* Command::spawn of `nu -c "try { cd '<dir>' }; <command>; ..."`. The server
\* itself never changes directory, so a failed `cd` leaves the child in
\* InitialCwd. `dir` is the directory the interpreter is in once the user's
\* pipeline has run.
SpawnedProc(command, dir) ==
  LET start == IF dir \in ExistingDirs THEN dir ELSE InitialCwd
      target == Commands[command].cd
  IN [state |-> "running", cmd |-> command, pos |-> 0,
      dir |-> IF target # <<>> /\ target[1] \in ExistingDirs THEN target[1] ELSE start,
      exit |-> <<>>]

\* The interpreter prints the next line of the user's pipeline.
ProcRun(p) ==
  /\ procs[p].state = "running"
  /\ procs[p].pos < Len(Commands[procs[p].cmd].out)
  /\ LET line == Commands[procs[p].cmd].out[procs[p].pos + 1]
     IN pipes' = [pipes EXCEPT ![p][line.stream] = Append(@, line.text)]
  /\ procs' = [procs EXCEPT ![p].pos = @ + 1]
  /\ UNCHANGED <<push, locks, cwd, cwd_writer, processes, info, bufs, drains, calls, bg, sup, kills, reads>>

\* The blocking wrapper's last statement, print $"<sentinel>(pwd)", reached only
\* when the user's pipeline ended without error.
ProcEmit(p) ==
  /\ IsBlockingProc(p)
  /\ procs[p].state = "running"
  /\ Commands[procs[p].cmd].end = "ok"
  /\ procs[p].pos = Len(Commands[procs[p].cmd].out)
  /\ pipes' = [pipes EXCEPT ![p]["stdout"] = Append(@, Sentinel \o procs[p].dir)]
  /\ procs' = [procs EXCEPT ![p].pos = @ + 1]
  /\ UNCHANGED <<push, locks, cwd, cwd_writer, processes, info, bufs, drains, calls, bg, sup, kills, reads>>

\* Where the wrapped command has nothing left to run
ProcAtEnd(p) ==
  LET cmd == Commands[procs[p].cmd]
  IN IF IsBlockingProc(p) /\ cmd.end = "ok"
     THEN procs[p].pos = Len(cmd.out) + 1
     ELSE procs[p].pos = Len(cmd.out)

\* The process ends by itself: exit code 0, exit code 1, or a signal (no code).
ProcExit(p) ==
  /\ procs[p].state = "running"
  /\ ProcAtEnd(p)
  /\ Commands[procs[p].cmd].end # "hang"
  /\ procs' = [procs EXCEPT ![p].state = "exited",
                            ![p].exit = CASE Commands[procs[p].cmd].end = "ok" -> <<0>>
                                          [] Commands[procs[p].cmd].end = "fail" -> <<1>>
                                          [] OTHER -> <<>>]
  /\ UNCHANGED <<push, locks, cwd, cwd_writer, processes, info, pipes, bufs, drains, calls, bg, sup, kills, reads>>

\* The write ends of a process's pipes are closed once it is gone, unless a
\* descendant inherited them.
PipeClosed(p) ==
  /\ procs[p].state \in {"exited", "killed"}
  /\ ~Commands[procs[p].cmd].holds

\* Mutant of DrainLine: the line is read and not appended to the buffer.
DrainLineSkips(p, s) ==
  /\ drains[p][s] = "reading"
  /\ pipes[p][s] # <<>>
  /\ pipes' = [pipes EXCEPT ![p][s] = Tail(@)]
  /\ UNCHANGED <<push, locks, cwd, cwd_writer, processes, info, procs, bufs, drains, calls, bg, sup,
                 kills, reads>>

\* Mutant of DrainLine: the line is put in front of what the buffer holds.
DrainLinePrepends(p, s) ==
  /\ drains[p][s] = "reading"
  /\ pipes[p][s] # <<>>
  /\ bufs' = [bufs EXCEPT ![p][s] = Head(pipes[p][s]) \o <<"\n">> \o @]
  /\ pipes' = [pipes EXCEPT ![p][s] = Tail(@)]
  /\ UNCHANGED <<push, locks, cwd, cwd_writer, processes, info, procs, drains, calls, bg, sup,
                 kills, reads>>

\* One turn of `while let Ok(Some(line)) = lines.next_line().await`: read a
\* line, lock the buffer, push_truncated(line + "\n"), unlock.
DrainLine(p, s) ==
  /\ drains[p][s] = "reading"
  /\ pipes[p][s] # <<>>
  /\ bufs' = [bufs EXCEPT ![p][s] =
                PushTruncated(@, Head(pipes[p][s]) \o <<"\n">>, DrainCap(p, s))]
  /\ pipes' = [pipes EXCEPT ![p][s] = Tail(@)]
  /\ UNCHANGED <<push, locks, cwd, cwd_writer, processes, info, procs, drains, calls, bg, sup, kills, reads>>

\* next_line() returns Ok(None) at end of stream: the task finishes.
DrainEnd(p, s) ==
  /\ drains[p][s] = "reading"
  /\ pipes[p][s] = <<>>
  /\ PipeClosed(p)
  /\ drains' = [drains EXCEPT ![p][s] = "done"]
  /\ UNCHANGED <<push, locks, cwd, cwd_writer, processes, info, procs, pipes, bufs, calls, bg, sup, kills, reads>>

\* Mutant of DrainError: the task empties its buffer when the read fails.
DrainErrorClears(p, s) ==
  /\ drains[p][s] = "reading"
  /\ drains' = [drains EXCEPT ![p][s] = "error"]
  /\ bufs' = [bufs EXCEPT ![p][s] = <<>>]
  /\ UNCHANGED <<push, locks, cwd, cwd_writer, processes, info, procs, pipes, calls, bg, sup,
                 kills, reads>>

\* next_line() returns Err (bytes that are not UTF-8, a broken stream): the
\* `while let Ok(Some(line))` loop ends and with it the task; what the pipe
\* still holds is not read.
DrainError(p, s) ==
  /\ drains[p][s] = "reading"
  /\ drains' = [drains EXCEPT ![p][s] = "error"]
  /\ UNCHANGED <<push, locks, cwd, cwd_writer, processes, info, procs, pipes, bufs, calls, bg,
                 sup, kills, reads>>

\* JoinHandle::abort: a task still reading stops; a finished one is unaffected.
Aborted(d) == IF d = "reading" THEN "aborted" ELSE d

\* Mutant of Killed: the signal is never delivered.
KilledNot(proc) == proc

\* child.kill() on success: a running process is terminated (no exit code).
Killed(proc) ==
  IF proc.state = "running" THEN [proc EXCEPT !.state = "killed"] ELSE proc

\* ExitStatus::code().unwrap_or(-1)
CodeOrMinusOne(exit) == IF exit = <<>> THEN -1 ELSE exit[1]

\* Mutant of JoinReturns: the task is awaited without a bound.
JoinReturnsWhenDone(d) == d = "done"

\* tokio::time::timeout(1s, task): returns when the task has finished (at end
\* of stream or on a read error), or when it is still reading and the second
\* elapses.
JoinReturns(d) == d \in {"done", "error", "reading"}

\* ---------------------------------------------------------- blocking path
\* nu_exec, background = false: an explicit cwd is written into the shared state.
NuExecBlocking(c, arg, command) ==
  /\ calls[c].pc = "idle"
  /\ c > 1 => calls[c - 1].pc # "idle"
  /\ cwd' = IF arg # <<>> THEN arg[1] ELSE cwd
  /\ cwd_writer' = IF arg # <<>> THEN 0 ELSE cwd_writer
  /\ calls' = [calls EXCEPT ![c].pc = "exec", ![c].arg = arg, ![c].command = command]
  /\ UNCHANGED <<push, locks, processes, info, procs, pipes, bufs, drains, bg, sup, kills, reads>>

\* exec_blocking up to the select!: get_cwd, spawn, start both drain tasks.
ExecBlockingStart(c, spawn_ok) ==
  /\ calls[c].pc = "exec"
  /\ IF spawn_ok
     THEN /\ calls' = [calls EXCEPT ![c].pc = "race", ![c].cwd = cwd,
                                    ![c].cwd_from = cwd_writer]
          /\ procs' = [procs EXCEPT ![CallProc(c)] = SpawnedProc(calls[c].command, cwd)]
          /\ drains' = [drains EXCEPT ![CallProc(c)] = [s \in Streams |-> "reading"]]
     ELSE /\ calls' = [calls EXCEPT ![c].pc = "launch_error", ![c].cwd = cwd,
                                    ![c].cwd_from = cwd_writer]
          /\ UNCHANGED <<procs, drains>>
  /\ UNCHANGED <<push, locks, cwd, cwd_writer, processes, info, pipes, bufs, bg, sup, kills, reads>>

\* select!: the sleep(timeout) branch is taken; both drain tasks are aborted.
BlkTimeout(c) ==
  /\ calls[c].pc = "race"
  /\ drains' = [drains EXCEPT ![CallProc(c)] = [s \in Streams |-> Aborted(@[s])]]
  /\ calls' = [calls EXCEPT ![c].pc = "kill",
                            ![c].alive_at_timeout = (procs[CallProc(c)].state = "running")]
  /\ UNCHANGED <<push, locks, cwd, cwd_writer, processes, info, procs, pipes, bufs, bg, sup, kills, reads>>

\* `let _ = child.kill().await; (-1, true)`: the result of kill is discarded.
BlkKill(c, ok) ==
  /\ calls[c].pc = "kill"
  /\ procs' = [procs EXCEPT ![CallProc(c)] = IF ok THEN Killed(@) ELSE @]
  /\ calls' = [calls EXCEPT ![c].pc = "read_stdout", ![c].exit_code = -1,
                            ![c].timed_out = TRUE, ![c].kill_ok = ok]
  /\ UNCHANGED <<push, locks, cwd, cwd_writer, processes, info, pipes, bufs, drains, bg, sup, kills, reads>>

\* select!: child.wait() returns Ok(status).
BlkChildExit(c) ==
  /\ calls[c].pc = "race"
  /\ procs[CallProc(c)].state = "exited"
  /\ calls' = [calls EXCEPT ![c].pc = "join_stdout",
                            ![c].exit_code = CodeOrMinusOne(procs[CallProc(c)].exit)]
  /\ UNCHANGED <<push, locks, cwd, cwd_writer, processes, info, procs, pipes, bufs, drains, bg, sup, kills, reads>>

\* select!: child.wait() returns Err(e).
BlkWaitError(c) ==
  /\ calls[c].pc = "race"
  /\ calls' = [calls EXCEPT ![c].pc = "join_stdout", ![c].exit_code = -1]
  /\ UNCHANGED <<push, locks, cwd, cwd_writer, processes, info, procs, pipes, bufs, drains, bg, sup, kills, reads>>

BlkJoinStdout(c) ==
  /\ calls[c].pc = "join_stdout"
  /\ JoinReturns(drains[CallProc(c)]["stdout"])
  /\ calls' = [calls EXCEPT ![c].pc = "join_stderr"]
  /\ UNCHANGED <<push, locks, cwd, cwd_writer, processes, info, procs, pipes, bufs, drains, bg, sup, kills, reads>>

BlkJoinStderr(c) ==
  /\ calls[c].pc = "join_stderr"
  /\ JoinReturns(drains[CallProc(c)]["stderr"])
  /\ calls' = [calls EXCEPT ![c].pc = "read_stdout"]
  /\ UNCHANGED <<push, locks, cwd, cwd_writer, processes, info, procs, pipes, bufs, drains, bg, sup, kills, reads>>

\* stdout_buf.lock().await.clone()
BlkReadStdout(c) ==
  /\ calls[c].pc = "read_stdout"
  /\ calls' = [calls EXCEPT ![c].pc = "read_stderr",
                            ![c].stdout_final = bufs[CallProc(c)]["stdout"]]
  /\ UNCHANGED <<push, locks, cwd, cwd_writer, processes, info, procs, pipes, bufs, drains, bg, sup, kills, reads>>

\* Mutant of ParseStdout: the line after the sentinel is taken untrimmed.
ParseStdoutNoTrim(stdout_final, call_cwd) ==
  LET idx == Find(stdout_final, Sentinel)
  IN IF idx # <<>>
     THEN LET first == LinesNext(SubSeq(stdout_final, idx[1] + Len(Sentinel) + 1,
                                        Len(stdout_final)))
          IN [found |-> TRUE,
              clean_output |-> TrimEnd(SubSeq(stdout_final, 1, idx[1])),
              new_cwd |-> IF first # <<>> THEN first[1] ELSE call_cwd]
     ELSE [found |-> FALSE, clean_output |-> stdout_final, new_cwd |-> call_cwd]

\* Mutant of ParseStdout: the output is right-trimmed also without a sentinel.
ParseStdoutTrimsRaw(stdout_final, call_cwd) ==
  LET idx == Find(stdout_final, Sentinel)
  IN IF idx # <<>>
     THEN LET first == LinesNext(SubSeq(stdout_final, idx[1] + Len(Sentinel) + 1,
                                        Len(stdout_final)))
          IN [found |-> TRUE,
              clean_output |-> TrimEnd(SubSeq(stdout_final, 1, idx[1])),
              new_cwd |-> IF first # <<>> THEN Trim(first[1]) ELSE call_cwd]
     ELSE [found |-> FALSE, clean_output |-> TrimEnd(stdout_final),
           new_cwd |-> call_cwd]

\* The sentinel scan: whether it was found, the clean output, the new directory.
ParseStdout(stdout_final, call_cwd) ==
  LET idx == Find(stdout_final, Sentinel)
  IN IF idx # <<>>
     THEN LET before_sentinel == SubSeq(stdout_final, 1, idx[1])
              after_sentinel ==
                SubSeq(stdout_final, idx[1] + Len(Sentinel) + 1, Len(stdout_final))
              first == LinesNext(after_sentinel)
          IN [found |-> TRUE,
              clean_output |-> TrimEnd(before_sentinel),
              new_cwd |-> IF first # <<>> THEN Trim(first[1]) ELSE call_cwd]
     ELSE [found |-> FALSE, clean_output |-> stdout_final, new_cwd |-> call_cwd]

\* format!("{}{}", clean_output, "\n[stderr]\n" + stderr if stderr is not empty)
FormatOutput(clean_output, stderr_final) ==
  clean_output \o (IF stderr_final # <<>> THEN StderrLabel \o stderr_final ELSE <<>>)

\* exec_blocking from stderr_buf.lock().await.clone() to its return: the
\* sentinel scan, set_cwd if the sentinel was found, NuExecResult.
BlkFinish(c) ==
  /\ calls[c].pc = "read_stderr"
  /\ LET parsed == ParseStdout(calls[c].stdout_final, calls[c].cwd)
         stderr_final == bufs[CallProc(c)]["stderr"]
     IN /\ cwd' = IF parsed.found THEN parsed.new_cwd ELSE cwd
        /\ cwd_writer' = IF parsed.found THEN c ELSE cwd_writer
        /\ calls' = [calls EXCEPT
             ![c].pc = "done",
             ![c].stderr_final = stderr_final,
             ![c].set = IF parsed.found THEN <<parsed.new_cwd>> ELSE <<>>,
             ![c].output = FormatOutput(parsed.clean_output, stderr_final),
             ![c].success = (~calls[c].timed_out) /\ calls[c].exit_code = 0]
  /\ UNCHANGED <<push, locks, processes, info, procs, pipes, bufs, drains, bg, sup, kills, reads>>

\* The cwd argument of nu.exec: absent, or a directory
CwdArgs == {<<>>, <<DirT>>}

BlkProcStep ==
  \E c \in Calls :
    \/ ProcRun(CallProc(c))
    \/ ProcEmit(CallProc(c))
    \/ ProcExit(CallProc(c))
    \/ \E s \in Streams : DrainLine(CallProc(c), s)
    \/ \E s \in Streams : DrainEnd(CallProc(c), s)

BlkCallStep(c) ==
  \/ \E spawn_ok \in BOOLEAN : ExecBlockingStart(c, spawn_ok)
  \/ BlkTimeout(c)
  \/ \E ok \in BOOLEAN : BlkKill(c, ok)
  \/ BlkChildExit(c)
  \/ BlkWaitError(c)
  \/ BlkJoinStdout(c)
  \/ BlkJoinStderr(c)
  \/ BlkReadStdout(c)
  \/ BlkFinish(c)

NextBlk ==
  \/ \E c \in Calls, arg \in CwdArgs, command \in CommandIds : NuExecBlocking(c, arg, command)
  \/ \E c \in Calls : BlkCallStep(c)
  \/ BlkProcStep

SpecBlk == Init /\ [][NextBlk]_vars

\* -------------------------------------------------------- background path
\* nu_exec, background = true: an explicit cwd is written into the shared state.
NuExecBackground(j, arg, command) ==
  /\ bg[j].pc = "idle"
  /\ j > 1 => bg[j - 1].pc # "idle"
  /\ cwd' = IF arg # <<>> THEN arg[1] ELSE cwd
  /\ cwd_writer' = IF arg # <<>> THEN 0 ELSE cwd_writer
  /\ bg' = [bg EXCEPT ![j].pc = "exec", ![j].command = command]
  /\ UNCHANGED <<push, locks, processes, info, procs, pipes, bufs, drains, calls, sup, kills, reads>>

\* AppState::generate_id, "Generate unique process ID", in the runs in which
\* nanoid!(6) returns a string no earlier job was given: the first such
\* identifier. (NanoIds and SpecIds cover the other runs.)
GenerateId == Min({i \in JobIds : \A j \in Jobs : info[j].id # i})

\* Mutant of ExecBackground: the call returns "started" only once the child
\* has exited.
ExecBackgroundWaits(j, spawn_ok) ==
  \/ /\ bg[j].pc = "exec"
     /\ IF spawn_ok
        THEN /\ bg' = [bg EXCEPT ![j].pc = "waiting", ![j].cwd = cwd,
                                 ![j].cwd_from = cwd_writer, ![j].id = GenerateId]
             /\ procs' = [procs EXCEPT ![JobProc(j)] = SpawnedProc(bg[j].command, cwd)]
             /\ info' = [info EXCEPT ![j] = NewProcessInfo(GenerateId)]
             /\ processes' = [processes EXCEPT ![GenerateId] = j]
             /\ sup' = [sup EXCEPT ![j].pc = "get_buffers"]
        ELSE /\ bg' = [bg EXCEPT ![j].pc = "launch_error", ![j].cwd = cwd,
                                 ![j].cwd_from = cwd_writer]
             /\ UNCHANGED <<procs, info, processes, sup>>
     /\ UNCHANGED <<push, locks, cwd, cwd_writer, pipes, bufs, drains, calls, kills, reads>>
  \/ /\ bg[j].pc = "waiting" /\ spawn_ok
     /\ procs[JobProc(j)].state = "exited"
     /\ bg' = [bg EXCEPT ![j].pc = "started"]
     /\ UNCHANGED <<push, locks, cwd, cwd_writer, processes, info, procs, pipes, bufs, drains, calls,
                    sup, kills, reads>>

\* Mutant of ExecBackground: the record is registered and the monitor started
\* before the spawn is attempted.
ExecBackgroundRegistersFirst(j, spawn_ok) ==
  /\ bg[j].pc = "exec"
  /\ bg' = [bg EXCEPT ![j].pc = IF spawn_ok THEN "started" ELSE "launch_error",
                      ![j].cwd = cwd, ![j].cwd_from = cwd_writer, ![j].id = GenerateId]
  /\ procs' = [procs EXCEPT ![JobProc(j)] =
                 IF spawn_ok THEN SpawnedProc(bg[j].command, cwd) ELSE @]
  /\ info' = [info EXCEPT ![j] = NewProcessInfo(GenerateId)]
  /\ processes' = [processes EXCEPT ![GenerateId] = j]
  /\ sup' = [sup EXCEPT ![j].pc = "get_buffers"]
  /\ UNCHANGED <<push, locks, cwd, cwd_writer, pipes, bufs, drains, calls, kills, reads>>

\* exec_background when generate_id returns id: get_cwd, spawn, generate_id,
\* register_process (HashMap::insert: a record under the same id is replaced),
\* start the monitor task, return "started".
ExecBackgroundId(j, spawn_ok, id) ==
  /\ bg[j].pc = "exec"
  /\ IF spawn_ok
     THEN /\ bg' = [bg EXCEPT ![j].pc = "started", ![j].cwd = cwd,
                              ![j].cwd_from = cwd_writer, ![j].id = id]
          /\ procs' = [procs EXCEPT ![JobProc(j)] = SpawnedProc(bg[j].command, cwd)]
          /\ info' = [info EXCEPT ![j] = NewProcessInfo(id)]
          /\ processes' = [processes EXCEPT ![id] = j]
          /\ sup' = [sup EXCEPT ![j].pc = "get_buffers"]
     ELSE /\ bg' = [bg EXCEPT ![j].pc = "launch_error", ![j].cwd = cwd,
                              ![j].cwd_from = cwd_writer]
          /\ UNCHANGED <<procs, info, processes, sup>>
  /\ UNCHANGED <<push, locks, cwd, cwd_writer, pipes, bufs, drains, calls, kills, reads>>

\* exec_background in the runs without a collision of identifiers
ExecBackground(j, spawn_ok) == ExecBackgroundId(j, spawn_ok, GenerateId)

\* Mutant of Take: the handle is handed out and stays in the slot.
TakeLeavesHandle(slot) == [got |-> slot, left |-> slot]

\* Option::take on the child slot: what the taker gets and what it leaves
Take(slot) == [got |-> slot, left |-> FALSE]

\* monitor_and_drain_pipes: state.get_buffers(&id)
MonGetBuffers(j) ==
  /\ sup[j].pc = "get_buffers"
  /\ sup' = [sup EXCEPT
       ![j].pc = IF processes[bg[j].id] = 0 THEN "return_not_found" ELSE "take_child",
       ![j].buffers = processes[bg[j].id]]
  /\ UNCHANGED <<push, locks, cwd, cwd_writer, processes, info, procs, pipes, bufs, drains, calls, bg,
                 kills, reads>>

\* Mutant of MonTakeChild: the drain tasks are started before the handle is
\* looked at.
MonTakeChildDrainsFirst(j) ==
  /\ sup[j].pc = "take_child"
  /\ LET r == processes[bg[j].id]
     IN IF r # 0 /\ Take(info[r].child).got
        THEN /\ info' = [info EXCEPT ![r].child = Take(@).left, ![r].taken = @ + 1]
             /\ sup' = [sup EXCEPT ![j].pc = "wait", ![j].child = r]
        ELSE /\ sup' = [sup EXCEPT ![j].pc = "return_no_child"]
             /\ UNCHANGED info
  /\ drains' = [drains EXCEPT ![JobProc(j)] = [s \in Streams |-> "reading"]]
  /\ UNCHANGED <<push, locks, cwd, cwd_writer, processes, procs, pipes, bufs, calls, bg, kills, reads>>

\* monitor_and_drain_pipes: state.take_child(&id), then the two drain tasks
\* are started on the child's pipes.
MonTakeChild(j) ==
  /\ sup[j].pc = "take_child"
  /\ LET r == processes[bg[j].id]
     IN IF r # 0 /\ Take(info[r].child).got
        THEN /\ info' = [info EXCEPT ![r].child = Take(@).left, ![r].taken = @ + 1]
             /\ sup' = [sup EXCEPT ![j].pc = "wait", ![j].child = r]
             /\ drains' = [drains EXCEPT ![JobProc(r)] = [s \in Streams |-> "reading"]]
        ELSE /\ sup' = [sup EXCEPT ![j].pc = "return_no_child"]
             /\ UNCHANGED <<info, drains>>
  /\ UNCHANGED <<push, locks, cwd, cwd_writer, processes, procs, pipes, bufs, calls, bg, kills, reads>>

\* Mutant of StatusOf: every code the platform provided counts as success.
StatusOfAnyCode(code) == IF code >= 0 THEN "Completed" ELSE "Failed"

\* `if code == 0 { Completed } else { Failed }`
StatusOf(code) == IF code = 0 THEN "Completed" ELSE "Failed"

\* timeout(300s, child.wait()) returns Ok(Ok(exit_status))
MonWaitExit(j) ==
  /\ sup[j].pc = "wait"
  /\ procs[JobProc(sup[j].child)].state \in {"exited", "killed"}
  /\ LET code == CodeOrMinusOne(procs[JobProc(sup[j].child)].exit)
     IN sup' = [sup EXCEPT ![j].pc = "join_stdout", ![j].exit_code = code,
                           ![j].status = StatusOf(code), ![j].wait = "exit"]
  /\ UNCHANGED <<push, locks, cwd, cwd_writer, processes, info, procs, pipes, bufs, drains, calls, bg,
                 kills, reads>>

\* timeout(300s, child.wait()) returns Ok(Err(e))
MonWaitError(j) ==
  /\ sup[j].pc = "wait"
  /\ sup' = [sup EXCEPT ![j].pc = "join_stdout", ![j].exit_code = -1,
                        ![j].status = "Failed", ![j].wait = "error"]
  /\ UNCHANGED <<push, locks, cwd, cwd_writer, processes, info, procs, pipes, bufs, drains, calls, bg,
                 kills, reads>>

\* Mutant of MonWaitCeiling: the ceiling is recorded in the job's record at
\* once and the supervisor goes on waiting for the child.
MonWaitCeilingRecordsAndWaits(j) ==
  /\ sup[j].pc = "wait"
  /\ procs[JobProc(sup[j].child)].state = "running"
  /\ info[sup[j].buffers].status = "Running"
  /\ info' = [info EXCEPT ![sup[j].buffers].exit_code = <<-1>>,
                          ![sup[j].buffers].status = "Failed"]
  /\ UNCHANGED <<push, locks, cwd, cwd_writer, processes, procs, pipes, bufs, drains, calls, bg, sup,
                 kills, reads>>

\* Mutant of MonWaitCeiling: the child is killed when the ceiling elapses.
MonWaitCeilingKills(j) ==
  /\ sup[j].pc = "wait"
  /\ procs[JobProc(sup[j].child)].state = "running"
  /\ procs' = [procs EXCEPT ![JobProc(sup[j].child)] = Killed(@)]
  /\ sup' = [sup EXCEPT ![j].pc = "join_stdout", ![j].exit_code = -1,
                        ![j].status = "Failed", ![j].wait = "ceiling"]
  /\ UNCHANGED <<push, locks, cwd, cwd_writer, processes, info, pipes, bufs, drains, calls, bg,
                 kills, reads>>

\* timeout(300s, child.wait()) returns Err(_): the ceiling elapsed with the
\* child still running; the child is not killed.
MonWaitCeiling(j) ==
  /\ sup[j].pc = "wait"
  /\ procs[JobProc(sup[j].child)].state = "running"
  /\ sup' = [sup EXCEPT ![j].pc = "join_stdout", ![j].exit_code = -1,
                        ![j].status = "Failed", ![j].wait = "ceiling"]
  /\ UNCHANGED <<push, locks, cwd, cwd_writer, processes, info, procs, pipes, bufs, drains, calls, bg,
                 kills, reads>>

MonJoinStdout(j) ==
  /\ sup[j].pc = "join_stdout"
  /\ JoinReturns(drains[JobProc(sup[j].child)]["stdout"])
  /\ sup' = [sup EXCEPT ![j].pc = "join_stderr",
                        ![j].flushed = (drains[JobProc(sup[j].child)]["stdout"] = "done")]
  /\ UNCHANGED <<push, locks, cwd, cwd_writer, processes, info, procs, pipes, bufs, drains, calls, bg,
                 kills, reads>>

MonJoinStderr(j) ==
  /\ sup[j].pc = "join_stderr"
  /\ JoinReturns(drains[JobProc(sup[j].child)]["stderr"])
  /\ sup' = [sup EXCEPT ![j].pc = "write_exit_code"]
  /\ UNCHANGED <<push, locks, cwd, cwd_writer, processes, info, procs, pipes, bufs, drains, calls, bg,
                 kills, reads>>

\* *buffers.exit_code.lock().await = Some(exit_code)
MonWriteExitCode(j) ==
  /\ sup[j].pc = "write_exit_code"
  /\ info' = [info EXCEPT ![sup[j].buffers].exit_code = <<sup[j].exit_code>>,
                          ![sup[j].buffers].writes = @ + 1]
  /\ sup' = [sup EXCEPT ![j].pc = "write_status"]
  /\ UNCHANGED <<push, locks, cwd, cwd_writer, processes, procs, pipes, bufs, drains, calls, bg,
                 kills, reads>>

\* Mutant of MonWriteStatus: the supervisor also writes the directory its
\* process ended in back into the session.
MonWriteStatusSetsCwd(j) ==
  /\ sup[j].pc = "write_status"
  /\ info' = [info EXCEPT ![sup[j].buffers].status = sup[j].status,
                          ![sup[j].buffers].writes = @ + 1]
  /\ sup' = [sup EXCEPT ![j].pc = "done"]
  /\ cwd' = procs[JobProc(sup[j].child)].dir
  /\ UNCHANGED <<push, locks, cwd_writer, processes, procs, pipes, bufs, drains, calls, bg,
                 kills, reads>>

\* *buffers.status.lock().await = status
MonWriteStatus(j) ==
  /\ sup[j].pc = "write_status"
  /\ info' = [info EXCEPT ![sup[j].buffers].status = sup[j].status,
                          ![sup[j].buffers].writes = @ + 1]
  /\ sup' = [sup EXCEPT ![j].pc = "done"]
  /\ UNCHANGED <<push, locks, cwd, cwd_writer, processes, procs, pipes, bufs, drains, calls, bg,
                 kills, reads>>

\* Mutant of KillRemove: the record is looked up and left in the registry.
KillRemoveKeeps(k, id) ==
  /\ kills[k].pc = "idle"
  /\ k > 1 => kills[k - 1].pc # "idle"
  /\ LET r == processes[id]
     IN IF r = 0
        THEN kills' = [kills EXCEPT ![k].pc = "done", ![k].id = id,
                                    ![k].result = "not_found"]
        ELSE kills' = [kills EXCEPT
               ![k].pc = "take", ![k].id = id, ![k].info = r,
               ![k].was_running = (procs[JobProc(r)].state = "running"),
               ![k].all_registered = (\A j \in Jobs : bg[j].pc = "started")]
  /\ UNCHANGED <<push, locks, cwd, cwd_writer, processes, info, procs, pipes, bufs, drains, calls, bg,
                 sup, reads>>

\* kill_process: state.remove_process(id)
KillRemove(k, id) ==
  /\ kills[k].pc = "idle"
  /\ k > 1 => kills[k - 1].pc # "idle"
  /\ LET r == processes[id]
     IN IF r = 0
        THEN kills' = [kills EXCEPT ![k].pc = "done", ![k].id = id,
                                    ![k].result = "not_found"]
        ELSE kills' = [kills EXCEPT
               ![k].pc = "take", ![k].id = id, ![k].info = r,
               ![k].was_running = (procs[JobProc(r)].state = "running"),
               ![k].all_registered = (\A j \in Jobs : bg[j].pc = "started")]
  /\ processes' = [processes EXCEPT ![id] = 0]
  /\ UNCHANGED <<push, locks, cwd, cwd_writer, info, procs, pipes, bufs, drains, calls, bg, sup, reads>>

\* kill_process: info.child.lock().await.take()
KillTake(k) ==
  /\ kills[k].pc = "take"
  /\ LET r == kills[k].info
     IN IF Take(info[r].child).got
        THEN /\ info' = [info EXCEPT ![r].child = Take(@).left, ![r].taken = @ + 1]
             /\ kills' = [kills EXCEPT ![k].pc = "kill"]
        ELSE /\ kills' = [kills EXCEPT ![k].pc = "done", ![k].result = "already_exited"]
             /\ UNCHANGED info
  /\ UNCHANGED <<push, locks, cwd, cwd_writer, processes, procs, pipes, bufs, drains, calls, bg, sup,
                 reads>>

\* Mutant of KillChild: when the kill fails the record is put back into the
\* registry.
KillChildRestores(k, ok) ==
  /\ kills[k].pc = "kill"
  /\ procs' = [procs EXCEPT ![JobProc(kills[k].info)] = IF ok THEN Killed(@) ELSE @]
  /\ kills' = [kills EXCEPT ![k].pc = "done",
                            ![k].result = IF ok THEN "killed" ELSE "kill_failed"]
  /\ processes' = IF ok THEN processes
                  ELSE [processes EXCEPT ![kills[k].id] = kills[k].info]
  /\ UNCHANGED <<push, locks, cwd, cwd_writer, info, pipes, bufs, drains, calls, bg, sup, reads>>

\* kill_process: child.kill().await, Ok or Err
KillChild(k, ok) ==
  /\ kills[k].pc = "kill"
  /\ procs' = [procs EXCEPT ![JobProc(kills[k].info)] = IF ok THEN Killed(@) ELSE @]
  /\ kills' = [kills EXCEPT ![k].pc = "done",
                            ![k].result = IF ok THEN "killed" ELSE "kill_failed"]
  /\ UNCHANGED <<push, locks, cwd, cwd_writer, processes, info, pipes, bufs, drains, calls, bg, sup,
                 reads>>

\* Mutant of GetProcessLookup: an absent id yields an empty snapshot instead
\* of NotFound.
GetProcessLookupDefaults(q, id) ==
  /\ reads[q].pc = "idle"
  /\ reads' = [reads EXCEPT
       ![q].pc = IF processes[id] = 0 THEN "done" ELSE "status",
       ![q].id = id, ![q].info = processes[id],
       ![q].after_kill = (\E k \in Killers : kills[k].id = id /\ kills[k].info # 0),
       ![q].result = IF processes[id] = 0 THEN "snapshot" ELSE "none"]
  /\ UNCHANGED <<push, locks, cwd, cwd_writer, processes, info, procs, pipes, bufs, drains, calls, bg,
                 sup, kills>>

\* read_output -> get_process: the registry lookup, then each field under its
\* own lock, in the order status, exit_code, stdout, stderr.
GetProcessLookup(q, id) ==
  /\ reads[q].pc = "idle"
  /\ reads' = [reads EXCEPT
       ![q].pc = IF processes[id] = 0 THEN "done" ELSE "status",
       ![q].id = id, ![q].info = processes[id],
       ![q].after_kill = (\E k \in Killers : kills[k].id = id /\ kills[k].info # 0),
       ![q].result = IF processes[id] = 0 THEN "not_found" ELSE "none"]
  /\ UNCHANGED <<push, locks, cwd, cwd_writer, processes, info, procs, pipes, bufs, drains, calls, bg,
                 sup, kills>>

\* nu_output on a request {id, block}: NuOutputArgs has the one field `id`, so
\* a `block` member is dropped when the arguments are deserialized, and
\* read_output(id) -> get_process(id) is called as for any other request.
NuOutput(q, id, block) ==
  /\ reads[q].pc = "idle"
  /\ reads' = [reads EXCEPT
       ![q].pc = IF processes[id] = 0 THEN "done" ELSE "status",
       ![q].id = id, ![q].info = processes[id], ![q].block = block,
       ![q].after_kill = (\E k \in Killers : kills[k].id = id /\ kills[k].info # 0),
       ![q].result = IF processes[id] = 0 THEN "not_found" ELSE "none"]
  /\ UNCHANGED <<push, locks, cwd, cwd_writer, processes, info, procs, pipes, bufs, drains, calls, bg,
                 sup, kills>>

\* Mutant of GetProcessStatus: the status is read only once it has left Running.
GetProcessStatusPolls(q) ==
  /\ reads[q].pc = "status"
  /\ info[reads[q].info].status # "Running"
  /\ reads' = [reads EXCEPT
       ![q].pc = "exit_code", ![q].status = info[reads[q].info].status,
       ![q].proc_running = (procs[JobProc(reads[q].info)].state = "running")]
  /\ UNCHANGED <<push, locks, cwd, cwd_writer, processes, info, procs, pipes, bufs, drains, calls, bg,
                 sup, kills>>

GetProcessStatus(q) ==
  /\ reads[q].pc = "status"
  /\ reads' = [reads EXCEPT
       ![q].pc = "exit_code", ![q].status = info[reads[q].info].status,
       ![q].proc_running = (procs[JobProc(reads[q].info)].state = "running")]
  /\ UNCHANGED <<push, locks, cwd, cwd_writer, processes, info, procs, pipes, bufs, drains, calls, bg,
                 sup, kills>>

GetProcessExitCode(q) ==
  /\ reads[q].pc = "exit_code"
  /\ reads' = [reads EXCEPT ![q].pc = "stdout",
                            ![q].exit_code = info[reads[q].info].exit_code]
  /\ UNCHANGED <<push, locks, cwd, cwd_writer, processes, info, procs, pipes, bufs, drains, calls, bg,
                 sup, kills>>

GetProcessStdout(q) ==
  /\ reads[q].pc = "stdout"
  /\ reads' = [reads EXCEPT ![q].pc = "stderr",
                            ![q].stdout = bufs[JobProc(reads[q].info)]["stdout"]]
  /\ UNCHANGED <<push, locks, cwd, cwd_writer, processes, info, procs, pipes, bufs, drains, calls, bg,
                 sup, kills>>

GetProcessStderr(q) ==
  /\ reads[q].pc = "stderr"
  /\ reads' = [reads EXCEPT ![q].pc = "done", ![q].result = "snapshot",
                            ![q].stderr = bufs[JobProc(reads[q].info)]["stderr"]]
  /\ UNCHANGED <<push, locks, cwd, cwd_writer, processes, info, procs, pipes, bufs, drains, calls, bg,
                 sup, kills>>

BgProcStep ==
  \E j \in Jobs :
    \/ ProcRun(JobProc(j))
    \/ ProcExit(JobProc(j))

BgDrainStep ==
  \E j \in Jobs, s \in Streams :
    \/ DrainLine(JobProc(j), s)
    \/ DrainEnd(JobProc(j), s)

MonStep(j) ==
  \/ MonGetBuffers(j)
  \/ MonTakeChild(j)
  \/ MonWaitExit(j)
  \/ MonWaitError(j)
  \/ MonWaitCeiling(j)
  \/ MonJoinStdout(j)
  \/ MonJoinStderr(j)
  \/ MonWriteExitCode(j)
  \/ MonWriteStatus(j)

KillStep(k) ==
  \/ \E id \in JobIds : KillRemove(k, id)
  \/ KillTake(k)
  \/ \E ok \in BOOLEAN : KillChild(k, ok)

ReadStep(q) ==
  \/ \E id \in JobIds : GetProcessLookup(q, id)
  \/ GetProcessStatus(q)
  \/ GetProcessExitCode(q)
  \/ GetProcessStdout(q)
  \/ GetProcessStderr(q)

\* The commands submitted in the background: one that prints and exits with
\* code 0, one that prints and never exits.
BgCommandIds == {1, 2}

\* Background jobs, their processes and supervisors, and nu.kill calls. The
\* drain tasks the supervisors start are left out of the schedule: their steps
\* change only pipes, bufs and drains, and the only step here that reads one of
\* these is a supervisor's join, which returns whether the task is still
\* reading or done (JoinReturns).
NextKill ==
  \/ \E j \in Jobs, command \in BgCommandIds : NuExecBackground(j, <<>>, command)
  \/ \E j \in Jobs, spawn_ok \in BOOLEAN : ExecBackground(j, spawn_ok)
  \/ \E j \in Jobs : MonStep(j)
  \/ \E k \in Killers : KillStep(k)
  \/ BgProcStep

SpecKill == Init /\ [][NextKill]_vars

\* Background jobs, their processes, supervisors and drain tasks, and
\* nu.output calls reading the records
NextRead ==
  \/ \E j \in Jobs, command \in BgCommandIds : NuExecBackground(j, <<>>, command)
  \/ \E j \in Jobs, spawn_ok \in BOOLEAN : ExecBackground(j, spawn_ok)
  \/ \E j \in Jobs : MonStep(j)
  \/ \E q \in Readers : ReadStep(q)
  \/ BgProcStep
  \/ BgDrainStep

SpecRead == Init /\ [][NextRead]_vars

\* Background jobs submitted with or without an explicit cwd, their processes,
\* supervisors and drain tasks; no kill and no reader
NextBg ==
  \/ \E j \in Jobs, arg \in CwdArgs, command \in BgCommandIds :
       NuExecBackground(j, arg, command)
  \/ \E j \in Jobs, spawn_ok \in BOOLEAN : ExecBackground(j, spawn_ok)
  \/ \E j \in Jobs : MonStep(j)
  \/ BgProcStep
  \/ BgDrainStep

SpecBg == Init /\ [][NextBg]_vars

\* ----------------------------------------------- claims, background path
KillSucceeded(k) == kills[k].result \in {"killed", "already_exited"}

\* C1: after kill(id) has returned killed or already_exited for a job whose
\* process was running when kill was called, that process is not running any
\* more, whether or not the supervisor had taken the handle.
C1_SuccessfulKillTerminates ==
  \A k \in Killers :
    KillSucceeded(k) /\ kills[k].was_running =>
      procs[JobProc(kills[k].info)].state # "running"

\* C2: in every snapshot get_process returns, exit_code is absent if and only
\* if status is Running.
C2_SnapshotExitCodeIffNotRunning ==
  \A q \in Readers :
    reads[q].result = "snapshot" =>
      (reads[q].exit_code = <<>> <=> reads[q].status = "Running")

\* C3: with every job registered and then one kill issued per job, once all
\* kills have returned each of them returned killed or already_exited and no
\* job's process is still running (stated for the runs in which no
\* termination syscall failed).
C3_OneKillPerJobLeavesNoProcess ==
  ( /\ \A j \in Jobs : bg[j].pc = "started"
    /\ \A k \in Killers : kills[k].pc = "done" /\ kills[k].all_registered
    /\ \A k \in Killers : kills[k].result # "kill_failed"
    /\ \A j \in Jobs : \E k \in Killers : kills[k].id = bg[j].id
    /\ \A k1, k2 \in Killers : k1 # k2 => kills[k1].id # kills[k2].id )
  => /\ \A k \in Killers : KillSucceeded(k)
     /\ \A j \in Jobs : procs[JobProc(j)].state # "running"

\* The tasks holding job j's process handle: its taker among the supervisors
\* and the kill calls, until it has finished with it
Holders(j) ==
  {<<"supervisor", m>> : m \in {m \in Jobs : sup[m].child = j /\ sup[m].pc # "done"}}
  \cup {<<"kill", k>> : k \in {k \in Killers : kills[k].info = j /\ kills[k].pc = "kill"}}

\* C4: a job's process handle is obtained by at most one taker; once taken the
\* slot is empty, so every later take_child or kill observes absence and the
\* handle is never held twice.
C4_HandleTakenAtMostOnce ==
  \A j \in Jobs :
    /\ info[j].taken <= 1
    /\ info[j].taken = 1 => ~info[j].child
    /\ Cardinality(Holders(j)) <= 1

\* The supervisor took a job's handle and a later kill of that job found the
\* slot empty.
C4_Witness ==
  \E k \in Killers, j \in Jobs :
    /\ kills[k].result = "already_exited" /\ kills[k].info = j
    /\ sup[j].child = j /\ info[j].taken = 1

\* C5: a job's status starts Running and changes at most once, to Completed or
\* Failed; its exit_code is absent and is set at most once; neither is
\* assigned a second time.
C5_StatusAndExitCodeWrittenOnce ==
  [][\A j \in Jobs :
       /\ info[j].status # "Running" => info'[j].status = info[j].status
       /\ info[j].exit_code # <<>> => info'[j].exit_code = info[j].exit_code
       /\ info'[j].status \in {"Running", "Completed", "Failed"}
       /\ info'[j].writes <= 2]_vars

\* A supervisor recorded Completed for one job and Failed for another, and a
\* kill was called for a job whose status had been recorded.
C5_Witness ==
  /\ \E j \in Jobs : info[j].status = "Completed" /\ info[j].exit_code = <<0>>
  /\ \E j \in Jobs : info[j].status = "Failed" /\ info[j].exit_code = <<-1>>
  /\ \E k \in Killers : kills[k].pc = "done" /\ kills[k].info # 0
       /\ info[kills[k].info].status # "Running"

\* C12: a nu.exec call given an explicit cwd runs its command with the
\* directory-enter guard (the cwd exec_blocking reads for its wrapper) set to
\* exactly that cwd, also when other calls run concurrently.
C12_ExplicitCwdIsGuardCwd ==
  \A c \in Calls :
    calls[c].pc \notin {"idle", "exec", "launch_error"} /\ calls[c].arg # <<>> =>
      calls[c].cwd = calls[c].arg[1]

\* One background job running alone, with its process, supervisor and drain
\* tasks. No step of one job reads or writes another job's locals, record or
\* process.
NextBgOne ==
  \/ \E arg \in CwdArgs, command \in BgCommandIds : NuExecBackground(1, arg, command)
  \/ \E spawn_ok \in BOOLEAN : ExecBackground(1, spawn_ok)
  \/ MonStep(1)
  \/ BgProcStep
  \/ BgDrainStep

\* Fairness the runtime gives exec_background: the call itself keeps running
\* (it awaits only the locks of the session cwd and of the registry). Nothing
\* is assumed of the child process, the supervisor or the drain tasks.
LiveBg ==
  Init /\ [][NextBgOne]_vars /\ WF_vars(\E spawn_ok \in BOOLEAN : ExecBackground(1, spawn_ok))

\* C13: exec_background returns (the identifier with "started", or a launch
\* error) without waiting for the child, also when the child never exits; and
\* when it returns "started", a Running record with no exit code is in the
\* registry under the returned identifier and the child has not been waited for.
C13_BackgroundReturnsAtOnce ==
  /\ \A j \in Jobs : (bg[j].pc = "exec") ~> (bg[j].pc \in {"started", "launch_error"})
  /\ [][\A j \in Jobs :
         bg[j].pc # "started" /\ bg'[j].pc = "started" =>
           /\ bg'[j].id \in JobIds
           /\ processes'[bg'[j].id] = j
           /\ info'[j].id = bg'[j].id
           /\ info'[j].status = "Running" /\ info'[j].exit_code = <<>>
           /\ procs'[JobProc(j)].state = "running"]_vars

\* exec_background has returned "started" for a job whose process never exits;
\* the process is running and the supervisor is waiting for it.
C13_Witness ==
  \E j \in Jobs :
    /\ bg[j].pc = "started" /\ Commands[bg[j].command].end = "hang"
    /\ procs[JobProc(j)].state = "running" /\ sup[j].pc = "wait"
    /\ processes[bg[j].id] = j /\ info[j].status = "Running"

\* One background job and one nu.output call, with the job's process,
\* supervisor and drain tasks
NextReadOne ==
  \/ \E command \in BgCommandIds : NuExecBackground(1, <<>>, command)
  \/ \E spawn_ok \in BOOLEAN : ExecBackground(1, spawn_ok)
  \/ MonStep(1)
  \/ ReadStep(1)
  \/ BgProcStep
  \/ BgDrainStep

\* Fairness: exec_background and the supervisor task keep running, and the
\* job's process keeps running until it ends. Nothing is assumed of the drain
\* tasks or of the reader.
LiveRead ==
  /\ Init /\ [][NextReadOne]_vars
  /\ WF_vars(\E spawn_ok \in BOOLEAN : ExecBackground(1, spawn_ok))
  /\ WF_vars(MonStep(1))
  /\ WF_vars(BgProcStep)

\* The job's command prints and then exits with code 0
ExitsZero(j) == bg[j].command # 0 /\ Commands[bg[j].command].end = "ok"
\* The text holds every line the command prints on stdout
HasPrinted(text, command) ==
  \A i \in 1..Len(Commands[command].out) :
    Commands[command].out[i].stream = "stdout" =>
      Find(text, Commands[command].out[i].text \o <<"\n">>) # <<>>

OutStep(q) ==
  \/ \E id \in JobIds, block \in BOOLEAN : NuOutput(q, id, block)
  \/ GetProcessStatus(q)
  \/ GetProcessExitCode(q)
  \/ GetProcessStdout(q)
  \/ GetProcessStderr(q)

NextOut ==
  \/ \E command \in BgCommandIds : NuExecBackground(1, <<>>, command)
  \/ \E spawn_ok \in BOOLEAN : ExecBackground(1, spawn_ok)
  \/ MonStep(1)
  \/ OutStep(1)
  \/ BgProcStep
  \/ BgDrainStep

\* Fairness: the nu.output call itself keeps running (it awaits only locks that
\* are held for single assignments). Nothing is assumed of the job.
LiveOut == Init /\ [][NextOut]_vars /\ WF_vars(OutStep(1))

\* C15 as stated: a read_output called with block requested does not return a
\* snapshot while the job's status is Running (the code has no wait ceiling on
\* this path that could excuse it).
C15_BlockingReadWaitsForStatus ==
  \A q \in Readers :
    reads[q].result = "snapshot" /\ reads[q].block => reads[q].status # "Running"

\* C15 amended: read_output returns the current snapshot at once, whether or
\* not block is requested: every call that found the record returns, also
\* when the job's status never leaves Running.
C15_ReadReturnsAtOnce ==
  \A q \in Readers : (reads[q].pc = "status") ~> (reads[q].result = "snapshot")

\* A request with block: true returned a Running snapshot of a job whose
\* process never exits and is still running.
C15_Witness ==
  \E q \in Readers :
    /\ reads[q].result = "snapshot" /\ reads[q].block /\ reads[q].status = "Running"
    /\ Commands[bg[reads[q].info].command].end = "hang"
    /\ procs[JobProc(reads[q].info)].state = "running"
    /\ info[reads[q].info].status = "Running"

\* C16: a kill that found the record of a job whose process had already exited
\* returns already_exited (not killed, not an error), whether or not the
\* supervisor had taken the handle (stated for the runs in which no
\* termination syscall failed).
C16_KillOfExitedIsAlreadyExited ==
  \A k \in Killers :
    /\ kills[k].pc = "done" /\ kills[k].info # 0 /\ ~kills[k].was_running
    /\ kills[k].result # "kill_failed"
    => kills[k].result = "already_exited"

\* One background job with its process and supervisor, nu.kill calls and a
\* nu.output call. The drain tasks are left out of the schedule as in NextKill.
NextKillRead ==
  \/ \E command \in BgCommandIds : NuExecBackground(1, <<>>, command)
  \/ \E spawn_ok \in BOOLEAN : ExecBackground(1, spawn_ok)
  \/ MonStep(1)
  \/ \E k \in Killers : KillStep(k)
  \/ \E q \in Readers : ReadStep(q)
  \/ BgProcStep

SpecKillRead == Init /\ [][NextKillRead]_vars

\* The kill call found the record
KillFound(k) == kills[k].pc # "idle" /\ kills[k].info # 0

C18_UnknownIdNotFoundNoEffect ==
  [][/\ \A k \in Killers :
          kills[k].pc = "idle" /\ kills'[k].pc # "idle" /\ processes[kills'[k].id] = 0 =>
            /\ kills'[k].pc = "done" /\ kills'[k].result = "not_found"
            /\ processes' = processes /\ info' = info /\ cwd' = cwd
     /\ \A q \in Readers :
          reads[q].pc = "idle" /\ reads'[q].pc # "idle" /\ processes[reads'[q].id] = 0 =>
            /\ reads'[q].pc = "done" /\ reads'[q].result = "not_found"
            /\ processes' = processes /\ info' = info /\ cwd' = cwd]_vars

\* With a job registered, a kill and a read_output of an id that was never
\* issued both returned NotFound and the job's record is still registered.
C18_Witness ==
  \E k \in Killers, q \in Readers :
    /\ kills[k].id = MaxJobs + 1 /\ kills[k].result = "not_found"
    /\ reads[q].id = MaxJobs + 1 /\ reads[q].result = "not_found"
    /\ bg[1].pc = "started" /\ processes[bg[1].id] = 1

\* ------------------------------------------- push_truncated on its own
\* The number of appends made to the one buffer
MaxAppends == 4

\* The max_size values tried: below the reserve of 100 bytes, just above it
\* and above it by more than the marker's length.
PushCaps == {0, 1, 2, 3, 101, 121}

\* The data of one append: a text of n bytes b, for n in PushLens and b in
\* PushBytes
PushLens == {0, 1, 2, 60}
PushBytes == {"x", "y"}
Chunk(n, b) == [i \in 1..n |-> b]

\* a is a prefix of b
IsPrefix(a, b) == Len(a) <= Len(b) /\ SubSeq(b, 1, Len(a)) = a

\* str::ends_with
EndsWith(s, pat) == Len(pat) <= Len(s) /\ SubSeq(s, Len(s) - Len(pat) + 1, Len(s)) = pat

\* One call push_truncated(&mut buffer, data, max_size) by a task that has
\* not panicked. A panic comes before the first write to the buffer and ends
\* the task. The append discarded a byte exactly when the old buffer followed
\* by the whole data is not the start of the new buffer.
PushAppend(data) ==
  /\ push.appends < MaxAppends
  /\ ~push.panicked
  /\ LET new == PushTruncated(push.buffer, data, push.max_size)
         lost == ~IsPrefix(push.buffer \o data, new)
     IN IF PushPanics(push.buffer, data, push.max_size)
        THEN push' = [push EXCEPT !.panicked = TRUE, !.appends = @ + 1,
                                  !.before = push.buffer, !.data = data,
                                  !.past = Append(@, push.buffer)]
        ELSE push' = [push EXCEPT !.buffer = new, !.appends = @ + 1, !.lost = lost,
                                  !.ever_lost = @ \/ lost, !.before = push.buffer,
                                  !.data = data, !.past = Append(@, push.buffer)]
  /\ UNCHANGED <<locks, cwd, cwd_writer, processes, info, procs, pipes, bufs, drains, calls,
                 bg, sup, kills, reads>>

InitPush ==
  InitServer /\ locks = NoLocks /\ \E max_size \in PushCaps : push = NewBuffer(max_size)

NextPush == \E n \in PushLens, b \in PushBytes : PushAppend(Chunk(n, b))

SpecPush == InitPush /\ [][NextPush]_vars

\* C19: after every append the buffer is at most max_size plus the marker's
\* 20 bytes long, for every max_size, those below 100 included.
C19_LengthAtMostCapPlusMarker ==
  Len(push.buffer) <= push.max_size + Len(TruncationMarker)

\* C20: right after an append that discarded a byte of the data or of the
\* buffer the buffer ends with the truncation marker, and after every later
\* append the buffer still contains the marker.
C20_MarkerAfterDiscard ==
  /\ push.lost => EndsWith(push.buffer, TruncationMarker)
  /\ push.ever_lost => Find(push.buffer, TruncationMarker) # <<>>

\* With max_size above 100, an append discarded bytes and a later append went
\* in whole: the marker is inside the buffer, not at its end.
C20_Witness ==
  /\ push.max_size > TruncateReserve
  /\ push.ever_lost /\ ~push.lost
  /\ Find(push.buffer, TruncationMarker) # <<>>
  /\ ~EndsWith(push.buffer, TruncationMarker)

\* One blocking call and one background job, each with or without an explicit
\* cwd, with their processes, drain tasks and the job's supervisor
NextSpawn ==
  \/ \E arg \in CwdArgs, command \in CommandIds : NuExecBlocking(1, arg, command)
  \/ BlkCallStep(1)
  \/ BlkProcStep
  \/ \E arg \in CwdArgs, command \in BgCommandIds : NuExecBackground(1, arg, command)
  \/ \E spawn_ok \in BOOLEAN : ExecBackground(1, spawn_ok)
  \/ MonStep(1)
  \/ BgProcStep
  \/ BgDrainStep

SpecSpawn == Init /\ [][NextSpawn]_vars

\* C21: a call whose spawn fails returns a launch error and no timeout result:
\* exec_background has inserted no record and started no supervisor, and
\* exec_blocking, from its get_cwd to its return, has not written the session
\* working directory; the step that fails leaves registry, records,
\* supervisors and session directory as they were.
C21_SpawnFailureIsLaunchError ==
  /\ [](\A c \in Calls :
          calls[c].pc = "launch_error" =>
            /\ ~calls[c].timed_out /\ calls[c].set = <<>> /\ cwd_writer # c
            /\ procs[CallProc(c)].state = "none")
  /\ [](\A j \in Jobs :
          bg[j].pc = "launch_error" =>
            /\ \A i \in JobIds : processes[i] # j
            /\ info[j] = NoInfo /\ sup[j].pc = "none"
            /\ procs[JobProc(j)].state = "none")
  /\ [][/\ \A c \in Calls :
             /\ calls[c].pc # "launch_error" /\ calls'[c].pc = "launch_error" =>
                  cwd' = cwd /\ cwd_writer' = cwd_writer
             /\ calls[c].pc = "launch_error" => calls'[c] = calls[c]
        /\ \A j \in Jobs :
             /\ bg[j].pc # "launch_error" /\ bg'[j].pc = "launch_error" =>
                  processes' = processes /\ info' = info /\ sup' = sup
             /\ bg[j].pc = "launch_error" => bg'[j] = bg[j]]_vars

\* The spawn failed for a blocking call given an explicit cwd and for a
\* background job: both returned a launch error, the registry is empty and
\* the session directory is the one nu_exec wrote before exec_blocking ran.
C21_Witness ==
  /\ calls[1].pc = "launch_error" /\ calls[1].arg = <<DirT>> /\ calls[1].cwd = DirT
  /\ bg[1].pc = "launch_error"
  /\ \A i \in JobIds : processes[i] = 0
  /\ cwd = DirT

\* C22: the override nu_exec makes for a supplied cwd is for that call only: a
\* call without a cwd argument reads the session working directory as
\* AppState::new or the last sentinel-disclosed set_cwd left it, never the
\* cwd another call supplied.
C22_OverrideIsForThatCallOnly ==
  \A c \in Calls :
    /\ calls[c].pc \notin {"idle", "exec", "launch_error"}
    /\ calls[c].arg = <<>> /\ calls[c].cwd_from = 0
    => calls[c].cwd = InitialCwd

\* The supervisor returned at get_buffers or at take_child
SupExitedEarly(j) == sup[j].pc \in {"return_not_found", "return_no_child"}

\* C23: kill has removed the record from the registry when it takes and
\* terminates the handle; and a supervisor that found the record absent at
\* get_buffers, or the handle absent at take_child, has returned without
\* starting a drain task, without a process to wait for and without a write
\* to status or exit_code.
C23_KillRemovesFirstSupervisorExitsClean ==
  /\ \A k \in Killers :
       kills[k].pc \in {"take", "kill"} => processes[kills[k].id] = 0
  /\ \A j \in Jobs :
       SupExitedEarly(j) =>
         /\ \A s \in Streams : drains[JobProc(j)][s] = "none"
         /\ sup[j].child = 0 /\ sup[j].wait = "none"
         /\ info[j].writes = 0 /\ info[j].status = "Running" /\ info[j].exit_code = <<>>
         /\ \E k \in Killers : kills[k].info = j

\* One supervisor found its record removed by a kill, another found its record
\* but the handle taken by a kill; both kills have returned killed.
C23_Witness ==
  \E j1, j2 \in Jobs, k1, k2 \in Killers :
    /\ sup[j1].pc = "return_not_found" /\ sup[j2].pc = "return_no_child"
    /\ kills[k1].info = j1 /\ kills[k1].result = "killed"
    /\ kills[k2].info = j2 /\ kills[k2].result = "killed"

\* One background job running any of the commands (exit 0, never exiting,
\* exit 1 with the pipes held open, ended by a signal), with its process,
\* supervisor and drain tasks
NextSup ==
  \/ \E command \in CommandIds : NuExecBackground(1, <<>>, command)
  \/ \E spawn_ok \in BOOLEAN : ExecBackground(1, spawn_ok)
  \/ MonStep(1)
  \/ BgProcStep
  \/ BgDrainStep

SpecSup == Init /\ [][NextSup]_vars

\* C24: the supervisor records Completed exactly when its wait returned an
\* exit status with code 0, and Failed otherwise: with the process's code when
\* that is not 0, with -1 when the platform gave no code, on a wait error and
\* when the ceiling elapsed. So in every final record status is Completed if
\* and only if exit_code is 0.
C24_CompletedIffExitCodeZero ==
  \A j \in Jobs :
    sup[j].pc = "done" =>
      LET exit == procs[JobProc(j)].exit
          waited == sup[j].wait = "exit"
      IN /\ info[j].status \in {"Completed", "Failed"}
         /\ info[j].status = "Completed" <=> info[j].exit_code = <<0>>
         /\ info[j].status = "Completed" <=> (waited /\ exit = <<0>>)
         /\ waited /\ exit # <<>> => info[j].exit_code = exit
         /\ ~waited \/ exit = <<>> => info[j].exit_code = <<-1>>

\* The supervisor has recorded Failed with code 1 for a process that exited
\* with code 1.
C24_Witness ==
  \E j \in Jobs :
    /\ sup[j].pc = "done" /\ sup[j].wait = "exit"
    /\ procs[JobProc(j)].exit = <<1>>
    /\ info[j].status = "Failed" /\ info[j].exit_code = <<1>>

\* Fairness: the supervisor task keeps running: its timers (the 300 s ceiling,
\* the 1 s joins) fire and the locks it awaits are held for single
\* assignments. Nothing is assumed of the process or of the drain tasks.
LiveSup == Init /\ [][NextSup]_vars /\ WF_vars(MonStep(1))

\* C25: a supervisor that has claimed the process handle eventually writes a
\* terminal status, also when the process never exits; when the ceiling
\* elapsed it has recorded Failed with exit code -1, and the step in which the
\* ceiling elapses leaves the process as it was.
C25_ClaimedJobGetsTerminalStatus ==
  /\ \A j \in Jobs : (sup[j].pc = "wait") ~> (info[j].status \in {"Completed", "Failed"})
  /\ [](\A j \in Jobs :
          sup[j].pc = "done" /\ sup[j].wait = "ceiling" =>
            info[j].status = "Failed" /\ info[j].exit_code = <<-1>>)
  /\ [][\A j \in Jobs :
          sup[j].wait # "ceiling" /\ sup'[j].wait = "ceiling" => procs' = procs]_vars

\* The ceiling elapsed for a process that never exits: Failed with -1 is
\* recorded and the process is still running.
C25_Witness ==
  \E j \in Jobs :
    /\ sup[j].pc = "done" /\ sup[j].wait = "ceiling"
    /\ Commands[bg[j].command].end = "hang"
    /\ info[j].status = "Failed" /\ info[j].exit_code = <<-1>>
    /\ procs[JobProc(j)].state = "running"

\* ------------------------------------------------ the mutexes of one job
\* What a task does next: lock a mutex (TokioMutex::lock().await), drop its
\* guard, or a step made with the guards it holds.
Acq(l) == [op |-> "acq", lock |-> l]
Rel(l) == [op |-> "rel", lock |-> l]
Do(what) == [op |-> what, lock |-> "none"]

\* exec_background: register_process inserts under the registry lock, then
\* the monitor task is spawned.
RegisterLocks == <<Acq("registry"), Do("insert"), Rel("registry"), Do("spawn_monitor")>>

\* AppState::get_buffers: the registry lock is held for the lookup; `?`
\* returns None (and the monitor returns) when the record is absent.
GetBuffersLocks == <<Acq("registry"), Do("get_or_return"), Rel("registry")>>

\* AppState::take_child: the registry guard is held across
\* ProcessInfo::take_child, which locks the child slot for the take.
TakeChildLocks ==
  <<Acq("registry"), Do("get_or_return"), Acq("child"), Do("take"), Rel("child"),
    Rel("registry"), Do("return_if_none")>>

\* monitor_and_drain_pipes: get_buffers, take_child, the drain tasks, the wait
\* and the joins (no lock held), then exit_code and status, one lock each.
MonitorLocks ==
  GetBuffersLocks \o TakeChildLocks \o
  <<Do("spawn_drains"), Do("wait"),
    Acq("exit_code"), Do("write"), Rel("exit_code"),
    Acq("status"), Do("write"), Rel("status")>>

\* A drain task that keeps its guard while it reads the next line
DrainLocksAcrossRead(l) == <<Acq(l), Do("push"), Do("next_line"), Rel(l)>>

\* A drain task: per line, lock the buffer, push_truncated, drop the guard;
\* then read the next line or end.
DrainLocks(l) == <<Acq(l), Do("push"), Rel(l), Do("next_line")>>

\* kill_process: remove_process under the registry lock, then the child slot
\* of the removed record is locked for the take, then child.kill().
KillLocks ==
  <<Acq("registry"), Do("remove_or_return"), Rel("registry"),
    Acq("child"), Do("take"), Rel("child"), Do("return_if_none"), Do("kill")>>

\* exec_blocking's timer branch and what follows it: abort both drain tasks,
\* kill the child, then stdout_buf.lock().await.clone() and the same for
\* stderr_buf.
TimeoutLocks ==
  <<Do("abort"), Do("kill"), Acq("stdout"), Do("copy"), Rel("stdout"),
    Acq("stderr"), Do("copy"), Rel("stderr")>>

\* get_process with the registry guard never dropped
GetProcessLocksKeepsRegistry ==
  <<Acq("registry"), Do("get_or_return"),
    Acq("status"), Do("copy"), Rel("status"),
    Acq("exit_code"), Do("copy"), Rel("exit_code"),
    Acq("stdout"), Do("copy"), Rel("stdout"),
    Acq("stderr"), Do("copy"), Rel("stderr"), Rel("registry")>>

\* get_process: the lookup and the Arc clones under the registry lock,
\* drop(processes), then each field under its own lock, one statement each.
GetProcessLocks ==
  <<Acq("registry"), Do("get_or_return"), Rel("registry"),
    Acq("status"), Do("copy"), Rel("status"),
    Acq("exit_code"), Do("copy"), Rel("exit_code"),
    Acq("stdout"), Do("copy"), Rel("stdout"),
    Acq("stderr"), Do("copy"), Rel("stderr")>>

LockProgram(t) ==
  CASE t = "register" -> RegisterLocks
    [] t = "monitor" -> MonitorLocks
    [] t = "drain_stdout" -> DrainLocks("stdout")
    [] t = "drain_stderr" -> DrainLocks("stderr")
    [] t = "kill" -> KillLocks
    [] t = "read" -> GetProcessLocks
    [] t = "timeout" -> TimeoutLocks

\* The task has been spawned and has not returned
LockActive(t) == locks.pc[t] >= 1 /\ locks.pc[t] <= Len(LockProgram(t))
LockOp(t) == LockProgram(t)[locks.pc[t]]
\* The pc past the end of the task's program
LockEnd(t) == Len(LockProgram(t)) + 1
\* Every guard the task holds is dropped
Dropped(owner, t) == [l \in Locks |-> IF owner[l] = t THEN "none" ELSE owner[l]]

\* TokioMutex::lock().await returns: the mutex is free and becomes the task's
LockAcquire(t) ==
  /\ LockActive(t) /\ LockOp(t).op = "acq"
  /\ locks.owner[LockOp(t).lock] = "none"
  /\ locks' = [locks EXCEPT !.owner[LockOp(t).lock] = t, !.pc[t] = @ + 1]
  /\ UNCHANGED <<push, cwd, cwd_writer, processes, info, procs, pipes, bufs, drains, calls,
                 bg, sup, kills, reads>>

\* The guard is dropped
LockRelease(t) ==
  /\ LockActive(t) /\ LockOp(t).op = "rel"
  /\ locks' = [locks EXCEPT !.owner[LockOp(t).lock] = "none", !.pc[t] = @ + 1]
  /\ UNCHANGED <<push, cwd, cwd_writer, processes, info, procs, pipes, bufs, drains, calls,
                 bg, sup, kills, reads>>

\* A step that keeps the task going: insert, remove or look up the record,
\* take the handle, spawn a task, copy or write a field, append, wait, kill
LockedStep(t) ==
  /\ LockActive(t)
  /\ LET op == LockOp(t).op
     IN /\ op \notin {"acq", "rel", "return_if_none", "next_line"}
        /\ op \in {"get_or_return", "remove_or_return"} => locks.present
        /\ locks' = [locks EXCEPT
             !.pc = [u \in Tasks |->
                       IF u = t THEN locks.pc[t] + 1
                       ELSE IF op = "spawn_monitor" /\ u = "monitor" THEN 1
                       ELSE IF op = "spawn_drains" /\ u \in {"drain_stdout", "drain_stderr"}
                            THEN 1
                       ELSE locks.pc[u]],
             !.present = IF op = "insert" THEN TRUE
                         ELSE IF op = "remove_or_return" THEN FALSE ELSE @,
             !.child = IF op = "insert" THEN TRUE ELSE IF op = "take" THEN FALSE ELSE @,
             !.got[t] = IF op = "take" THEN locks.child ELSE @,
             !.aborted = IF op = "abort" THEN TRUE ELSE @]
  /\ UNCHANGED <<push, cwd, cwd_writer, processes, info, procs, pipes, bufs, drains, calls,
                 bg, sup, kills, reads>>

\* The task returns early, dropping its guards: the record is absent, or the
\* take returned None
LockedReturn(t) ==
  /\ LockActive(t)
  /\ \/ LockOp(t).op \in {"get_or_return", "remove_or_return"} /\ ~locks.present
     \/ LockOp(t).op = "return_if_none" /\ ~locks.got[t]
  /\ locks' = [locks EXCEPT !.owner = Dropped(@, t), !.pc[t] = LockEnd(t)]
  /\ UNCHANGED <<push, cwd, cwd_writer, processes, info, procs, pipes, bufs, drains, calls,
                 bg, sup, kills, reads>>

\* The take returned the handle: the task goes on with it
LockedGoOn(t) ==
  /\ LockActive(t)
  /\ LockOp(t).op = "return_if_none" /\ locks.got[t]
  /\ locks' = [locks EXCEPT !.pc[t] = @ + 1]
  /\ UNCHANGED <<push, cwd, cwd_writer, processes, info, procs, pipes, bufs, drains, calls,
                 bg, sup, kills, reads>>

\* A drain task reads its next line (again = TRUE) or reaches end of stream
DrainNextLine(t, again) ==
  /\ LockActive(t)
  /\ LockOp(t).op = "next_line"
  /\ locks' = [locks EXCEPT !.pc[t] = IF again THEN 1 ELSE LockEnd(t)]
  /\ UNCHANGED <<push, cwd, cwd_writer, processes, info, procs, pipes, bufs, drains, calls,
                 bg, sup, kills, reads>>

NextLock ==
  \E t \in Tasks :
    \/ LockAcquire(t)
    \/ LockRelease(t)
    \/ LockedStep(t)
    \/ LockedReturn(t)
    \/ LockedGoOn(t)
    \/ \E again \in BOOLEAN : DrainNextLine(t, again)

SpecLock == Init /\ [][NextLock]_vars

\* The task waits for a mutex another task holds
LockBlocked(t) ==
  LockActive(t) /\ LockOp(t).op = "acq" /\ locks.owner[LockOp(t).lock] # "none"
\* The task it waits for ("none" if it does not wait)
WaitsFor(t) == IF LockBlocked(t) THEN locks.owner[LockOp(t).lock] ELSE "none"
\* Where n steps along the waits-for relation lead from t
RECURSIVE WaitChain(_, _)
WaitChain(t, n) ==
  IF n = 0 \/ t = "none" THEN t ELSE WaitChain(WaitsFor(t), n - 1)
\* The mutexes the task holds
HeldBy(t) == {l \in Locks : locks.owner[l] = t}

\* C26: in no interleaving of register, get_process, get_buffers, take_child,
\* kill, the drain tasks' appends and the supervisor's writes do the registry
\* lock and the field locks form a wait cycle, and while a task has not
\* returned some task can take a step; get_process holds no lock when it
\* locks a field and never more than one.
C26_NoLockCycle ==
  /\ \A t \in Tasks : WaitChain(t, Cardinality(Tasks)) = "none"
  /\ (\E t \in Tasks : LockActive(t)) => (\E t \in Tasks : LockActive(t) /\ ~LockBlocked(t))
  /\ Cardinality(HeldBy("read")) <= 1
  /\ LockActive("read") /\ LockOp("read").op = "acq" => HeldBy("read") = {}

\* take_child holds the registry lock and the child lock at once, and kill
\* and get_process both wait for the registry lock.
C26_Witness ==
  /\ HeldBy("monitor") = {"registry", "child"}
  /\ WaitsFor("kill") = "monitor"
  /\ WaitsFor("read") = "monitor"

DrainTasks == {"drain_stdout", "drain_stderr"}

\* An aborted task is dropped where it is suspended: at an .await, here
\* buf.lock().await and lines.next_line().await. Dropping it drops the guards
\* it holds. An await that is ready may also let the task run on (LockAcquire,
\* DrainNextLine).
DrainCancelled(t) ==
  /\ t \in DrainTasks /\ LockActive(t)
  /\ locks.aborted
  /\ LockOp(t).op \in {"acq", "next_line"}
  /\ locks' = [locks EXCEPT !.owner = Dropped(@, t), !.pc[t] = LockEnd(t),
                            !.cut = @ \/ HeldBy(t) # {}]
  /\ UNCHANGED <<push, cwd, cwd_writer, processes, info, procs, pipes, bufs, drains, calls,
                 bg, sup, kills, reads>>

\* exec_blocking at the moment its timer fires: both drain tasks are running,
\* no other task of the background path exists.
InitAbort ==
  /\ InitServer /\ push = NewBuffer(BackgroundCap)
  /\ locks = [NoLocks EXCEPT
                !.pc = [t \in Tasks |-> IF t \in DrainTasks \cup {"timeout"} THEN 1 ELSE 0]]

\* A step of exec_blocking from the timer branch to the final reads
TimeoutStep == LockAcquire("timeout") \/ LockRelease("timeout") \/ LockedStep("timeout")
\* A drain task's statements between lock and drop (no .await among them)
DrainLockedStep(t) == LockedStep(t) \/ LockRelease(t)

NextAbort ==
  \/ TimeoutStep
  \/ \E t \in DrainTasks :
       \/ LockAcquire(t)
       \/ DrainLockedStep(t)
       \/ \E again \in BOOLEAN : DrainNextLine(t, again)
       \/ DrainCancelled(t)

\* Fairness: a drain task that holds its guard runs on to the drop (the
\* statements in between do not await), and exec_blocking gets a mutex that is
\* free again and again (tokio's Mutex serves its waiters first-in first-out).
LiveAbort ==
  /\ InitAbort /\ [][NextAbort]_vars
  /\ \A t \in DrainTasks : WF_vars(DrainLockedStep(t))
  /\ SF_vars(TimeoutStep)

\* C27: a drain task holds its buffer lock from the lock to the end of one
\* append and is never cancelled with the guard in hand; after the timeout
\* branch has aborted the drain tasks no aborted task that has ended holds a
\* lock, and the final reads of stdout and stderr acquire their locks.
C27_AbortLeavesBuffersUnlocked ==
  /\ [](\A t \in DrainTasks :
          /\ LockActive(t) /\ HeldBy(t) # {} => LockOp(t).op \in {"push", "rel"}
          /\ ~LockActive(t) => HeldBy(t) = {})
  /\ [](~locks.cut)
  /\ (locks.pc["timeout"] = 1) ~> (locks.pc["timeout"] = LockEnd("timeout"))

\* The drain tasks were aborted while the stdout task held its guard in an
\* append, and the final read of stdout is waiting for that guard.
C27_Witness ==
  /\ locks.aborted /\ locks.pc["timeout"] = 3
  /\ locks.owner["stdout"] = "drain_stdout" /\ LockOp("drain_stdout").op = "push"

\* One background job printing one line or several, with its process,
\* supervisor and drain tasks, and a nu.output call
NextLines ==
  \/ \E command \in LineCommandIds : NuExecBackground(1, <<>>, command)
  \/ \E spawn_ok \in BOOLEAN : ExecBackground(1, spawn_ok)
  \/ MonStep(1)
  \/ ReadStep(1)
  \/ BgProcStep
  \/ BgDrainStep

SpecLines == Init /\ [][NextLines]_vars

\* The lines process p has written to stream s so far, in the order written
Produced(p, s) ==
  IF procs[p].state = "none" THEN <<>>
  ELSE LET out == Commands[procs[p].cmd].out
           done == SubSeq(out, 1, Min({procs[p].pos, Len(out)}))
           mine == SelectSeq(done, LAMBDA line : line.stream = s)
       IN [i \in 1..Len(mine) |-> mine[i].text]
\* Those of them the drain task has taken from the pipe
ReadSoFar(p, s) ==
  SubSeq(Produced(p, s), 1, Len(Produced(p, s)) - Len(pipes[p][s]))
\* The lines, each followed by a newline, one after the other
RECURSIVE JoinLines(_)
JoinLines(lines) ==
  IF lines = <<>> THEN <<>> ELSE Head(lines) \o <<"\n">> \o JoinLines(Tail(lines))

BrokenCommandIds == {1}

\* One blocking call and, submitted once that call has returned, one
\* background job; any of their drain tasks may end on a read error at any
\* moment. No step of the call reads or writes the job's locals, record,
\* process or drain tasks, nor the other way round.
NextBroken ==
  \/ \E command \in BrokenCommandIds : NuExecBlocking(1, <<>>, command)
  \/ BlkCallStep(1)
  \/ BlkProcStep
  \/ /\ calls[1].pc \in {"done", "launch_error"}
     /\ \E command \in BrokenCommandIds : NuExecBackground(1, <<>>, command)
  \/ \E spawn_ok \in BOOLEAN : ExecBackground(1, spawn_ok)
  \/ MonStep(1)
  \/ BgProcStep
  \/ BgDrainStep
  \/ \E p \in Procs, s \in Streams : DrainError(p, s)

\* Fairness: the blocking call and the supervisor task keep running (timers
\* fire, finished tasks are joined). Nothing is assumed of the processes or
\* of the drain tasks.
LiveBroken ==
  /\ Init /\ [][NextBroken]_vars
  /\ WF_vars(BlkCallStep(1))
  /\ WF_vars(MonStep(1))

\* C29: with a drain task ended by a read error, the blocking call still
\* returns a result and the supervisor still writes the final status; the
\* task's buffer keeps what was appended before the error, and the final
\* reads of the blocking call return it.
C29_ReadErrorEndsOnlyTheDrainTask ==
  /\ \A c \in Calls : (calls[c].pc = "race") ~> (calls[c].pc = "done")
  /\ \A j \in Jobs :
       (sup[j].pc = "wait") ~> (sup[j].pc = "done" /\ info[j].status # "Running")
  /\ [][\A p \in Procs, s \in Streams :
          drains'[p][s] = "error" => bufs'[p][s] = bufs[p][s]]_vars
  /\ [][\A c \in Calls :
          /\ calls[c].pc = "read_stdout" /\ calls'[c].pc = "read_stderr" =>
               calls'[c].stdout_final = bufs[CallProc(c)]["stdout"]
          /\ calls[c].pc = "read_stderr" /\ calls'[c].pc = "done" =>
               calls'[c].stderr_final = bufs[CallProc(c)]["stderr"]]_vars

\* The stdout drain task of a blocking call ended on a read error after one
\* line, with the sentinel line unread: the call returned that line with exit
\* code 0. The stdout drain task of the job ended on a read error before it
\* read the job's line and the supervisor recorded the final status.
C29_Witness ==
  /\ drains[CallProc(1)]["stdout"] = "error" /\ pipes[CallProc(1)]["stdout"] # <<>>
  /\ calls[1].pc = "done" /\ calls[1].stdout_final = <<"a", " ", "\n">>
  /\ calls[1].exit_code = 0
  /\ drains[JobProc(1)]["stdout"] = "error" /\ pipes[JobProc(1)]["stdout"] # <<>>
  /\ sup[1].pc = "done" /\ info[1].status = "Completed"

\* The first n bytes of s (all of s if it is shorter)
FirstBytes(s, n) == [i \in 1..Min({n, Len(s)}) |-> s[i]]

C31_EarlierContentKept ==
  LET remaining == Max({push.max_size - TruncateReserve, 0})
  IN \A k \in 1..Len(push.past) :
       IsPrefix(FirstBytes(push.past[k], remaining), push.buffer)

\* With max_size 121 the buffer held more than 21 bytes, of both kinds, after
\* two appends; the last append cut it down to 21 bytes and added data of the
\* other kind, and the first 21 bytes are still those of the second append's
\* time.
C31_Witness ==
  /\ push.max_size > TruncateReserve + 2 /\ push.appends > 2
  /\ LET remaining == push.max_size - TruncateReserve
     IN /\ Len(push.before) > remaining
        /\ push.data # <<>> /\ Len(push.data) <= remaining
        /\ push.buffer =
             FirstBytes(push.past[3], remaining) \o push.data \o TruncationMarker
        /\ push.past[3][1] # push.past[3][2]
        /\ push.data[1] # push.past[3][2]

\* The data of one append when characters may be two bytes long: n characters
\* ch, for n in CharCounts and ch in Characters
Characters == {<<"x">>, <<LeadByte, ContinuationByte>>}
CharCounts == {1, 30}
Repeat(ch, n) == [i \in 1..(n * Len(ch)) |-> ch[((i - 1) % Len(ch)) + 1]]

\* Appends of texts whose characters are one or two bytes long
NextChars == \E ch \in Characters, n \in CharCounts : PushAppend(Repeat(ch, n))

SpecChars == InitPush /\ [][NextChars]_vars

\* The text is UTF-8: no continuation byte at its start, every lead byte
\* followed by a continuation byte, every continuation byte after a lead byte
IsUtf8(s) ==
  \A i \in 1..Len(s) :
    /\ s[i] = LeadByte => i < Len(s) /\ s[i + 1] = ContinuationByte
    /\ s[i] = ContinuationByte => i > 1 /\ s[i - 1] = LeadByte

\* C32: no append leaves a part of a multi-byte character in the buffer, and
\* every append completes: no call of push_truncated panics, whatever the
\* buffer, the data and max_size, so the task that made the call goes on.
C32_AppendNeverFails == IsUtf8(push.buffer) /\ ~push.panicked

\* The half of C32 that holds: the buffer is UTF-8 after every append
BufferStaysUtf8 == IsUtf8(push.buffer)

\* C33: the session working directory is at every moment the initial directory
\* or a directory some blocking call parsed from its sentinel line, and once
\* every blocking call has finished it is the directory of the call whose
\* set_cwd came last (the initial directory if no call wrote one).
C33_CwdIsLastSentinelWrite ==
  /\ cwd = InitialCwd \/ \E c \in Calls : calls[c].set = <<cwd>>
  /\ (\A c \in Calls : calls[c].pc \in {"done", "launch_error"}) =>
       IF \E c \in Calls : calls[c].set # <<>>
       THEN cwd_writer \in Calls /\ calls[cwd_writer].set = <<cwd>>
       ELSE cwd = InitialCwd

\* The part of C33 that holds: set_cwd of exec_blocking writes whole values,
\* and the last of them stays until the next write of either kind. When the
\* last write was made by a finishing call, the session directory is the one
\* that call parsed.
SentinelWritesAreWhole ==
  /\ cwd_writer \in Calls => calls[cwd_writer].set = <<cwd>>
  /\ cwd_writer = 0 => cwd \in {InitialCwd} \cup {arg[1] : arg \in CwdArgs \ {<<>>}}

\* The strings nanoid!(6) may return: any of them at every call, whatever the
\* registry holds.
NanoIds == 1..MaxJobs

\* The records in the registry
Registered == {i \in JobIds : processes[i] # 0}

\* Background jobs whose identifiers are any outcome of nanoid, their
\* processes and supervisors, and one nu.kill call
NextIds ==
  \/ \E j \in Jobs, command \in BgCommandIds : NuExecBackground(j, <<>>, command)
  \/ \E j \in Jobs, spawn_ok \in BOOLEAN, id \in NanoIds : ExecBackgroundId(j, spawn_ok, id)
  \/ \E j \in Jobs : MonStep(j)
  \/ KillStep(1)
  \/ BgProcStep

SpecIds == Init /\ [][NextIds]_vars

\* C34: a successful background submission registers its record under an
\* identifier no record in the registry has, so it replaces no record and the
\* registry holds one record more than before.
C34_SubmissionAddsOneRecord ==
  [][\A j \in Jobs :
       bg[j].pc = "exec" /\ bg'[j].pc = "started" =>
         /\ processes[bg'[j].id] = 0
         /\ Cardinality({i \in JobIds : processes'[i] # 0}) = Cardinality(Registered) + 1]_vars

C36_RecordLeavesOnlyThroughKill ==
  /\ [][\A i \in JobIds :
          processes[i] # 0 /\ processes'[i] # processes[i] =>
            \E k \in Killers :
              kills[k].pc = "idle" /\ kills'[k].pc # "idle" /\ kills'[k].id = i]_vars
  /\ [](\A j \in Jobs :
          /\ sup[j].pc = "done" /\ info[j].status \in {"Completed", "Failed"}
          /\ \A k \in Killers : kills[k].id # info[j].id
          => processes[info[j].id] = j)

\* The max_size values tried for the blocking stdout buffer: the wrapper's
\* line is as long as `remaining`, or shorter
TrackCaps == {TruncateReserve + 12, TruncateReserve + 21}

\* The lines the user's command prints before the wrapper's line: none of
\* them contains the sentinel; FragmentText has the sentinel's first six
\* bytes at offsets 15..20.
FragmentText == Chunk(15, "x") \o SubSeq(Sentinel, 1, 6) \o Chunk(38, "y")
OutputTexts == {Chunk(1, "x"), Chunk(59, "x"), FragmentText}

\* The directories pwd prints in the wrapper's line
PwdDirs == {InitialCwd, DirT}

\* format!("{}\n", line)
WithNewline(line) == line \o <<"\n">>

\* The line the wrapper's print $":::CWD:::(pwd)" writes
SentinelLine(dir) == Sentinel \o dir

\* The stdout drain task appends a line of the user's output; the wrapper's
\* line has not been read yet.
DrainOutputLine(text) ==
  /\ \A dir \in PwdDirs : push.data # WithNewline(SentinelLine(dir))
  /\ PushAppend(WithNewline(text))

\* The stdout drain task appends the wrapper's line, the last line of stdout.
DrainSentinelLine(dir) ==
  /\ \A d \in PwdDirs : push.data # WithNewline(SentinelLine(d))
  /\ PushAppend(WithNewline(SentinelLine(dir)))

\* exec_blocking after the drain task has appended the wrapper's line and
\* ended: the clone of the stdout buffer, the scan for the sentinel, set_cwd.
ExecBlockingScan ==
  /\ calls[1].pc = "idle" /\ ~push.panicked
  /\ \E dir \in PwdDirs : push.data = WithNewline(SentinelLine(dir))
  /\ LET parsed == ParseStdout(push.buffer, cwd)
     IN /\ cwd' = IF parsed.found THEN parsed.new_cwd ELSE cwd
        /\ cwd_writer' = IF parsed.found THEN 1 ELSE cwd_writer
        /\ calls' = [calls EXCEPT
             ![1].pc = "done", ![1].stdout_final = push.buffer,
             ![1].set = IF parsed.found THEN <<parsed.new_cwd>> ELSE <<>>]
  /\ UNCHANGED <<push, locks, processes, info, procs, pipes, bufs, drains, bg, sup, kills, reads>>

InitTrack ==
  InitServer /\ locks = NoLocks /\ \E max_size \in TrackCaps : push = NewBuffer(max_size)

NextTrack ==
  \/ \E text \in OutputTexts : DrainOutputLine(text)
  \/ \E dir \in PwdDirs : DrainSentinelLine(dir)
  \/ ExecBlockingScan

SpecTrack == InitTrack /\ [][NextTrack]_vars

\* The directory on the wrapper's line that was appended last
LastLineDir == SubSeq(push.data, Len(Sentinel) + 1, Len(push.data) - 1)

\* C37: when the wrapper's line was the last line appended to the stdout
\* buffer and is at most max_size - 100 bytes long, the buffer exec_blocking
\* scans contains the line in full and the session working directory is set
\* to the directory on that line, whatever was appended before.
C37_TrackingSurvivesTruncation ==
  calls[1].pc = "done" /\ Len(push.data) <= push.max_size - TruncateReserve =>
    /\ Find(calls[1].stdout_final, push.data) # <<>>
    /\ calls[1].set = <<LastLineDir>> /\ cwd = LastLineDir

\* The part of C37 that holds: the wrapper's line is in the scanned buffer in
\* full, and the sentinel is found.
SentinelLineKeptInFull ==
  calls[1].pc = "done" /\ Len(push.data) <= push.max_size - TruncateReserve =>
    /\ Find(calls[1].stdout_final, push.data) # <<>>
    /\ calls[1].set # <<>>

NextBlkOne ==
  \/ \E arg \in CwdArgs, command \in CommandIds : NuExecBlocking(1, arg, command)
  \/ BlkCallStep(1)
  \/ BlkProcStep

\* Fairness the runtime gives a blocking call: a call whose next step is
\* possible (a timer that can fire, a finished child, a lock that is free)
\* takes it. Nothing is assumed of the child process or of the drain tasks.
LiveBlk == Init /\ [][NextBlkOne]_vars /\ WF_vars(BlkCallStep(1))

\* ------------------------------------------------- claims, blocking path
\* The text s holds the sentinel at 0-based offset i
SentinelAt(s, i) ==
  /\ i + Len(Sentinel) <= Len(s)
  /\ \A k \in 1..Len(Sentinel) : s[i + k] = Sentinel[k]
ContainsSentinel(s) == \E i \in 0..Len(s) : SentinelAt(s, i)
FirstSentinel(s) == Min({i \in 0..Len(s) : SentinelAt(s, i)})
\* t is s without its trailing whitespace
IsRightTrimOf(t, s) ==
  /\ Len(t) <= Len(s)
  /\ \A i \in 1..Len(t) : t[i] = s[i]
  /\ \A i \in (Len(t) + 1)..Len(s) : IsWhite(s[i])
  /\ t # <<>> => ~IsWhite(t[Len(t)])
\* t is the first line of s (the text before its first newline), without
\* leading and trailing whitespace
IsTrimmedFirstLineOf(t, s) ==
  \E a \in 0..Len(s), n \in 0..Len(s) :
    /\ a + Len(t) <= n
    /\ n = Len(s) \/ s[n + 1] = "\n"
    /\ \A i \in 1..n : s[i] # "\n"
    /\ \A i \in 1..a : IsWhite(s[i])
    /\ \A i \in 1..Len(t) : t[i] = s[a + i]
    /\ \A i \in (a + Len(t) + 1)..n : IsWhite(s[i])
    /\ t # <<>> => ~IsWhite(t[1]) /\ ~IsWhite(t[Len(t)])
\* The stdout part of a returned output: the output without its stderr section
StdoutPart(call) ==
  IF call.stderr_final = <<>> THEN call.output
  ELSE SubSeq(call.output, 1, Len(call.output) - Len(StderrLabel) - Len(call.stderr_final))
Returned(c) == calls[c].pc = "done"

\* C6: a blocking call whose process had not exited when its timeout elapsed
\* returns exit_code -1 and success false and leaves the session working
\* directory as it found it, whatever the process printed before it was killed.
C6_TimeoutKeepsCwd ==
  \A c \in Calls :
    Returned(c) /\ calls[c].timed_out /\ calls[c].alive_at_timeout =>
      /\ calls[c].exit_code = -1
      /\ ~calls[c].success
      /\ calls[c].set = <<>> \/ calls[c].set = <<calls[c].cwd>>

C8_BlockingCallReturns ==
  \A c \in Calls :
    (calls[c].pc = "exec") ~> (calls[c].pc \in {"done", "launch_error"})

\* A call returned although its child had exited and its stdout drain task was
\* still waiting on a pipe a descendant keeps open; another returned on timeout.
C8_Witness ==
  \E c \in Calls :
    /\ Returned(c) /\ ~calls[c].timed_out
    /\ procs[CallProc(c)].state = "exited"
    /\ drains[CallProc(c)]["stdout"] = "reading"
    /\ Commands[calls[c].command].holds

C10_NoSentinelRawOutputCwdUntouched ==
  \A c \in Calls :
    Returned(c) /\ ~ContainsSentinel(calls[c].stdout_final) =>
      /\ StdoutPart(calls[c]) = calls[c].stdout_final
      /\ calls[c].set = <<>>
      /\ cwd_writer # c

\* A call whose process printed "b" and was ended by a signal before the emit step
C10_Witness ==
  \E c \in Calls :
    /\ Returned(c) /\ ~ContainsSentinel(calls[c].stdout_final)
    /\ calls[c].stdout_final = <<"b", "\n">>
    /\ calls[c].exit_code = -1 /\ ~calls[c].timed_out

====
